---- MODULE Spec2Model ----
(***************************************************************************)
(* expo-slack-webhook: the three webhook handlers (build, submit, update), *)
(* their enrichment pipelines and the previous-event resolver.             *)
(*                                                                         *)
(* Spec         one webhook request from arrival to the end of its handler *)
(* SpecResolve  the resolver's scans applied to bounded inputs             *)
(* SpecClient   the Expo API client's four operations on bounded answers   *)
(* SpecShutdown a request in flight while the process is told to stop      *)
(* SpecFormat   the display lookups and formatDuration on bounded inputs    *)
(***************************************************************************)
EXTENDS Integers, Sequences, FiniteSets, TLC

VARIABLES
    secret,         \* cfg.ExpoHMACSecret; NoConfig while no config.Config exists
    env,            \* the process environment: variable name -> value, for the set variables
    route,          \* "build", "submit" or "update": the handler the mux picked
    req,            \* the request: method, body, whether the body can be read, headers
    pc,             \* where the handler's goroutine is
    written,        \* the status codes passed to w.WriteHeader, in order
    parsed,         \* whether json.Unmarshal was reached
    payload,        \* the parsed payload (the zero value until parsed)
    idx,            \* update handler: index of the update being processed
    previousBuild,  \* result of fetchPreviousBuild
    previousUpdate, \* result of fetchPreviousUpdate
    answers,        \* the latest upstream answers the handler received
    calls,          \* upstream and chat calls issued, in order
    posted,         \* the block sequences handed to PostMessageContext, in order
    returned,       \* the handler returned, which completes the HTTP response
    fn,             \* SpecResolve: which resolver function the inputs are for
    args,           \* SpecResolve: its inputs
    out,            \* SpecResolve: the results of the build and the update copy
    server          \* the process: signal received, Shutdown progress, exited

hvars == <<secret, env, route, req, pc, written, parsed, payload, idx,
           previousBuild, previousUpdate, answers, calls, posted, returned,
           server>>

rvars == <<fn, args, out>>

vars == <<secret, env, route, req, pc, written, parsed, payload, idx,
          previousBuild, previousUpdate, answers, calls, posted, returned,
          fn, args, out, server>>

(***************************************************************************)
(* Request bodies. The handlers see a body as bytes: they sign it and      *)
(* hand it to json.Unmarshal.                                              *)
(***************************************************************************)
BuildBody1 ==
    "{\"id\":\"B2\",\"appId\":\"app\",\"platform\":\"ios\",\"status\":\"finished\",\"metadata\":{\"channel\":\"prod\",\"gitCommitHash\":\"1111111aaa\"},\"createdAt\":\"2024-01-02T00:00:00Z\"}"

BuildBody2 ==
    "{\"id\":\"B9\",\"appId\":\"app\",\"platform\":\"android\",\"status\":\"errored\",\"metadata\":{\"channel\":\"prod\",\"gitCommitHash\":\"9999999aaa\"},\"error\":{\"errorCode\":\"E1\",\"message\":\"boom\"},\"createdAt\":\"2024-01-02T00:00:00Z\"}"

BuildBody3 ==
    "{\"id\":\"B2\",\"appId\":\"app\",\"platform\":\"ios\",\"status\":\"finished\",\"metadata\":{\"channel\":\"prod\",\"gitCommitHash\":\"1111111aaa\"},\"createdAt\":\"yesterday\"}"

BuildBody4 ==
    "{\"id\":\"B2\",\"appId\":\"app\",\"platform\":\"ios\",\"status\":\"finished\",\"metadata\":{\"channel\":\"prod\",\"gitCommitHash\":\"abc\"},\"createdAt\":\"2024-01-02T00:00:00Z\"}"

EmptyObjectBody ==
    "{}"

SubmitBody1 ==
    "{\"id\":\"S1\",\"platform\":\"ios\",\"status\":\"finished\"}"

SubmitBody2 ==
    "{\"id\":\"S2\",\"platform\":\"android\",\"status\":\"errored\",\"submissionInfo\":{\"error\":{\"errorCode\":\"E2\",\"message\":\"rejected\"}}}"

UpdateBody1 ==
    "[{\"id\":\"U2\",\"appId\":\"app\",\"group\":\"G2\",\"createdAt\":\"2024-01-02T00:00:00Z\",\"branch\":\"main\",\"platform\":\"ios\",\"gitCommitHash\":\"2222222bbb\"}]"

UpdateBody2 ==
    "[{\"id\":\"U6\",\"appId\":\"app\",\"group\":\"G6\",\"createdAt\":\"2024-01-02T00:00:00Z\",\"branch\":\"xxx-pr7\",\"platform\":\"ios\",\"gitCommitHash\":\"6666666bbb\"},{\"id\":\"U7\",\"appId\":\"app\",\"group\":\"G6\",\"createdAt\":\"2024-01-02T00:00:00Z\",\"branch\":\"main\",\"platform\":\"android\",\"gitCommitHash\":\"7777777bbb\"}]"

UpdateBody3 ==
    "[{\"id\":\"U8\",\"appId\":\"app\",\"group\":\"G8\",\"createdAt\":\"yesterday\",\"branch\":\"main\",\"platform\":\"android\",\"gitCommitHash\":\"8888888bbb\"},{\"id\":\"U2\",\"appId\":\"app\",\"group\":\"G8\",\"createdAt\":\"2024-01-02T00:00:00Z\",\"branch\":\"main\",\"platform\":\"ios\",\"gitCommitHash\":\"2222222bbb\"}]"

EmptyArrayBody ==
    "[]"

GarbageBody ==
    "not json"

Bodies ==
    {BuildBody1,
     BuildBody2,
     BuildBody3,
     BuildBody4,
     EmptyObjectBody,
     SubmitBody1,
     SubmitBody2,
     UpdateBody1,
     UpdateBody2,
     UpdateBody3,
     EmptyArrayBody,
     GarbageBody}

(* hex.EncodeToString of HMAC-SHA1 with the given key over the body. *)
hmacSHA1Hex(key, body) ==
    CASE key = "s" /\ body = BuildBody1 -> "2065a7fe1207729dbadf65e2956f9e494a1340e6"
      [] key = "s" /\ body = BuildBody2 -> "1aea929c979dfeade8a99a4d7f1117d28190b133"
      [] key = "s" /\ body = BuildBody3 -> "4391a612ae5b49962e887ca8280bf1124bd6622f"
      [] key = "s" /\ body = BuildBody4 -> "27935a42bc13f89e093de3bf5c4ab82d1b771b50"
      [] key = "s" /\ body = EmptyObjectBody -> "850413ce2dee4c4142838bab9e9086cb305da54d"
      [] key = "s" /\ body = SubmitBody1 -> "4840579edcac6dca21d88cf24068125d03621422"
      [] key = "s" /\ body = SubmitBody2 -> "e1a393f9ac5fd60c50200d42f6fb7f76aee996ce"
      [] key = "s" /\ body = UpdateBody1 -> "e613ccc3dd9487803c2237a5e9e9a57b873d1e9a"
      [] key = "s" /\ body = UpdateBody2 -> "e3e6cfd683d65330bf40b2d8fa5c8e79b5e27cf9"
      [] key = "s" /\ body = UpdateBody3 -> "4db1769b1613704e620184f14e8d8ad46297d009"
      [] key = "s" /\ body = EmptyArrayBody -> "ab78f5967f827d5d0ee186db1e66d2e24047eb44"
      [] key = "s" /\ body = GarbageBody -> "879c2b737605604e040af3ef012aef6e93d23f32"
      [] key = "t" /\ body = BuildBody1 -> "b6faf0889c6f5bc1a0cb5f8a7b139813f41c81ab"
      [] key = "t" /\ body = BuildBody2 -> "919760bd94639b4784fb4e000a56386b97e95ea4"
      [] key = "t" /\ body = BuildBody3 -> "71f812f7385d8e4bbd0bcc067bd0743f129ce8d9"
      [] key = "t" /\ body = BuildBody4 -> "8afe16d02aebedda8ce4a6fc5d3566ffe388c955"
      [] key = "t" /\ body = EmptyObjectBody -> "4f9cb2f61fbd69491cedbfdf960dd9e4d78cf067"
      [] key = "t" /\ body = SubmitBody1 -> "d861735bf41077003d8e0f7b071f748886a2553d"
      [] key = "t" /\ body = SubmitBody2 -> "077c73bdf463273bbe44b859b789e4c41c4305b4"
      [] key = "t" /\ body = UpdateBody1 -> "0adea26af1fa9724305d0edc7c164cb914b0c221"
      [] key = "t" /\ body = UpdateBody2 -> "03fb0be1b1fe2f1ccc3768bef58a21c0618bdd3d"
      [] key = "t" /\ body = UpdateBody3 -> "a02e1ce17e0f4282cb3b7c88346fa18f49926680"
      [] key = "t" /\ body = EmptyArrayBody -> "f5a7f415229db26179f32ae5c1aefe119cf56f14"
      [] key = "t" /\ body = GarbageBody -> "8411376f0a53cd43be77d776989fbe32229a360b"

(* Zero values of the payload structs, as Go leaves them on a failed parse. *)
build_ZeroPayload ==
    [Id |-> "", AppId |-> "", Platform |-> "", Status |-> "", Channel |-> "", GitCommitHash |-> "", ErrorCode |-> "", ErrorMessage |-> "", CreatedAt |-> ""]

submit_ZeroPayload ==
    [Id |-> "", Platform |-> "", Status |-> "", ErrorCode |-> "", ErrorMessage |-> ""]

(* json.Unmarshal of each body into the route's payload type: an object    *)
(* for build and submit, an array of objects for update.                   *)
build_Unmarshal(body) ==
    CASE body = BuildBody1 -> [err |-> FALSE, payload |->
           [Id |-> "B2", AppId |-> "app", Platform |-> "ios", Status |-> "finished", Channel |-> "prod", GitCommitHash |-> "1111111aaa", ErrorCode |-> "", ErrorMessage |-> "", CreatedAt |-> "2024-01-02T00:00:00Z"]]
      [] body = BuildBody2 -> [err |-> FALSE, payload |->
           [Id |-> "B9", AppId |-> "app", Platform |-> "android", Status |-> "errored", Channel |-> "prod", GitCommitHash |-> "9999999aaa", ErrorCode |-> "E1", ErrorMessage |-> "boom", CreatedAt |-> "2024-01-02T00:00:00Z"]]
      [] body = BuildBody3 -> [err |-> FALSE, payload |->
           [Id |-> "B2", AppId |-> "app", Platform |-> "ios", Status |-> "finished", Channel |-> "prod", GitCommitHash |-> "1111111aaa", ErrorCode |-> "", ErrorMessage |-> "", CreatedAt |-> "yesterday"]]
      [] body = BuildBody4 -> [err |-> FALSE, payload |->
           [Id |-> "B2", AppId |-> "app", Platform |-> "ios", Status |-> "finished", Channel |-> "prod", GitCommitHash |-> "abc", ErrorCode |-> "", ErrorMessage |-> "", CreatedAt |-> "2024-01-02T00:00:00Z"]]
      [] body = EmptyObjectBody -> [err |-> FALSE, payload |->
           [Id |-> "", AppId |-> "", Platform |-> "", Status |-> "", Channel |-> "", GitCommitHash |-> "", ErrorCode |-> "", ErrorMessage |-> "", CreatedAt |-> ""]]
      [] body = SubmitBody1 -> [err |-> FALSE, payload |->
           [Id |-> "S1", AppId |-> "", Platform |-> "ios", Status |-> "finished", Channel |-> "", GitCommitHash |-> "", ErrorCode |-> "", ErrorMessage |-> "", CreatedAt |-> ""]]
      [] body = SubmitBody2 -> [err |-> FALSE, payload |->
           [Id |-> "S2", AppId |-> "", Platform |-> "android", Status |-> "errored", Channel |-> "", GitCommitHash |-> "", ErrorCode |-> "", ErrorMessage |-> "", CreatedAt |-> ""]]
      [] body = UpdateBody1 -> [err |-> TRUE, payload |-> build_ZeroPayload]
      [] body = UpdateBody2 -> [err |-> TRUE, payload |-> build_ZeroPayload]
      [] body = UpdateBody3 -> [err |-> TRUE, payload |-> build_ZeroPayload]
      [] body = EmptyArrayBody -> [err |-> TRUE, payload |-> build_ZeroPayload]
      [] body = GarbageBody -> [err |-> TRUE, payload |-> build_ZeroPayload]

submit_Unmarshal(body) ==
    CASE body = BuildBody1 -> [err |-> FALSE, payload |->
           [Id |-> "B2", Platform |-> "ios", Status |-> "finished", ErrorCode |-> "", ErrorMessage |-> ""]]
      [] body = BuildBody2 -> [err |-> FALSE, payload |->
           [Id |-> "B9", Platform |-> "android", Status |-> "errored", ErrorCode |-> "", ErrorMessage |-> ""]]
      [] body = BuildBody3 -> [err |-> FALSE, payload |->
           [Id |-> "B2", Platform |-> "ios", Status |-> "finished", ErrorCode |-> "", ErrorMessage |-> ""]]
      [] body = BuildBody4 -> [err |-> FALSE, payload |->
           [Id |-> "B2", Platform |-> "ios", Status |-> "finished", ErrorCode |-> "", ErrorMessage |-> ""]]
      [] body = EmptyObjectBody -> [err |-> FALSE, payload |->
           [Id |-> "", Platform |-> "", Status |-> "", ErrorCode |-> "", ErrorMessage |-> ""]]
      [] body = SubmitBody1 -> [err |-> FALSE, payload |->
           [Id |-> "S1", Platform |-> "ios", Status |-> "finished", ErrorCode |-> "", ErrorMessage |-> ""]]
      [] body = SubmitBody2 -> [err |-> FALSE, payload |->
           [Id |-> "S2", Platform |-> "android", Status |-> "errored", ErrorCode |-> "E2", ErrorMessage |-> "rejected"]]
      [] body = UpdateBody1 -> [err |-> TRUE, payload |-> submit_ZeroPayload]
      [] body = UpdateBody2 -> [err |-> TRUE, payload |-> submit_ZeroPayload]
      [] body = UpdateBody3 -> [err |-> TRUE, payload |-> submit_ZeroPayload]
      [] body = EmptyArrayBody -> [err |-> TRUE, payload |-> submit_ZeroPayload]
      [] body = GarbageBody -> [err |-> TRUE, payload |-> submit_ZeroPayload]

update_Unmarshal(body) ==
    CASE body = BuildBody1 -> [err |-> TRUE, payload |-> <<>>]
      [] body = BuildBody2 -> [err |-> TRUE, payload |-> <<>>]
      [] body = BuildBody3 -> [err |-> TRUE, payload |-> <<>>]
      [] body = BuildBody4 -> [err |-> TRUE, payload |-> <<>>]
      [] body = EmptyObjectBody -> [err |-> TRUE, payload |-> <<>>]
      [] body = SubmitBody1 -> [err |-> TRUE, payload |-> <<>>]
      [] body = SubmitBody2 -> [err |-> TRUE, payload |-> <<>>]
      [] body = UpdateBody1 -> [err |-> FALSE, payload |-> <<[Id |-> "U2", AppId |-> "app", Group |-> "G2", CreatedAt |-> "2024-01-02T00:00:00Z", Branch |-> "main", Platform |-> "ios", GitCommitHash |-> "2222222bbb"]>>]
      [] body = UpdateBody2 -> [err |-> FALSE, payload |-> <<[Id |-> "U6", AppId |-> "app", Group |-> "G6", CreatedAt |-> "2024-01-02T00:00:00Z", Branch |-> "xxx-pr7", Platform |-> "ios", GitCommitHash |-> "6666666bbb"],
           [Id |-> "U7", AppId |-> "app", Group |-> "G6", CreatedAt |-> "2024-01-02T00:00:00Z", Branch |-> "main", Platform |-> "android", GitCommitHash |-> "7777777bbb"]>>]
      [] body = UpdateBody3 -> [err |-> FALSE, payload |-> <<[Id |-> "U8", AppId |-> "app", Group |-> "G8", CreatedAt |-> "yesterday", Branch |-> "main", Platform |-> "android", GitCommitHash |-> "8888888bbb"],
           [Id |-> "U2", AppId |-> "app", Group |-> "G8", CreatedAt |-> "2024-01-02T00:00:00Z", Branch |-> "main", Platform |-> "ios", GitCommitHash |-> "2222222bbb"]>>]
      [] body = EmptyArrayBody -> [err |-> FALSE, payload |-> <<>>]
      [] body = GarbageBody -> [err |-> TRUE, payload |-> <<>>]

(***************************************************************************)
(* expo domain model                                                       *)
(***************************************************************************)

(* strings.ToLower over the platform spellings that occur. *)
ToLower(s) ==
    CASE s = "ios" -> "ios"
      [] s = "IOS" -> "ios"
      [] s = "iOS" -> "ios"
      [] s = "android" -> "android"
      [] s = "ANDROID" -> "android"
      [] s = "Android" -> "android"
      [] s = "web" -> "web"
      [] s = "" -> ""

(* Platform.Equal: strings.EqualFold. *)
Platform_Equal(p, other) ==
    ToLower(p) = ToLower(other)

(* time.Parse(time.RFC3339, s): the instant in Unix seconds, or an error. *)
ParseRFC3339(s) ==
    CASE s = "2024-01-01T00:00:00Z" -> [err |-> FALSE, t |-> 1704067200]
      [] s = "2024-01-02T00:00:00Z" -> [err |-> FALSE, t |-> 1704153600]
      [] s = "2024-01-02T01:00:00+01:00" -> [err |-> FALSE, t |-> 1704153600]
      [] s = "2024-01-03T00:00:00Z" -> [err |-> FALSE, t |-> 1704240000]
      [] s = "2024-01-02 00:00:00" -> [err |-> TRUE, t |-> 0]
      [] s = "yesterday" -> [err |-> TRUE, t |-> 0]
      [] s = "" -> [err |-> TRUE, t |-> 0]

ZeroUpdate ==
    [Id |-> "", Platform |-> "", GitCommitHash |-> "", BranchName |-> "", CreatedAt |-> ""]

ZeroBuild ==
    [Id |-> "", Platform |-> "", CreatedAt |-> "", GitCommitHash |-> ""]

(***************************************************************************)
(* Previous-event resolver                                                 *)
(***************************************************************************)

(* A pointer-to-Update and error result: found = FALSE is the nil pointer; i, j  *)
(* locate the element the pointer refers to.                               *)
NoneFound ==
    [err |-> FALSE, found |-> FALSE, i |-> 0, j |-> 0, update |-> ZeroUpdate]

ScanError ==
    [err |-> TRUE, found |-> FALSE, i |-> 0, j |-> 0, update |-> ZeroUpdate]

FoundAt(updates, i, j) ==
    [err |-> FALSE, found |-> TRUE, i |-> i, j |-> j, update |-> updates[i][j]]

build_platformMismatch_dropNot(member, platform) ==
    Platform_Equal(member.Platform, platform)

(* build.previousUpdateFor: the platform test that skips a member. *)
build_platformMismatch(member, platform) ==
    ~Platform_Equal(member.Platform, platform)

build_isLater_orEqual(updateCreatedAt, createdAt) ==
    updateCreatedAt >= createdAt

(* build.previousUpdateFor: updateCreatedAt.After(createdAt). *)
build_isLater(updateCreatedAt, createdAt) ==
    updateCreatedAt > createdAt

build_onParseError_skip(rest) ==
    rest

(* build.previousUpdateFor: what the scan yields when a matching member's  *)
(* timestamp does not parse; rest is what the remaining members yield.     *)
build_onParseError(rest) ==
    ScanError

RECURSIVE build_scan(_, _, _, _, _)
build_scan(platform, createdAt, updates, i, j) ==
    IF i > Len(updates) THEN NoneFound
    ELSE IF j > Len(updates[i]) THEN build_scan(platform, createdAt, updates, i + 1, 1)
    ELSE IF build_platformMismatch(updates[i][j], platform)
         THEN build_scan(platform, createdAt, updates, i, j + 1)
    ELSE LET ts == ParseRFC3339(updates[i][j].CreatedAt) IN
         IF ts.err
         THEN build_onParseError(build_scan(platform, createdAt, updates, i, j + 1))
         ELSE IF build_isLater(ts.t, createdAt)
              THEN build_scan(platform, createdAt, updates, i, j + 1)
              ELSE FoundAt(updates, i, j)

build_previousUpdateFor(platform, createdAt, updates) ==
    build_scan(platform, createdAt, updates, 1, 1)

RECURSIVE update_scan(_, _, _, _, _)
update_scan(platform, createdAt, updates, i, j) ==
    IF i > Len(updates) THEN NoneFound
    ELSE IF j > Len(updates[i]) THEN update_scan(platform, createdAt, updates, i + 1, 1)
    ELSE IF ~Platform_Equal(updates[i][j].Platform, platform)
         THEN update_scan(platform, createdAt, updates, i, j + 1)
    ELSE LET ts == ParseRFC3339(updates[i][j].CreatedAt) IN
         IF ts.err THEN ScanError
         ELSE IF ts.t > createdAt
              THEN update_scan(platform, createdAt, updates, i, j + 1)
              ELSE FoundAt(updates, i, j)

update_previousUpdateFor(platform, createdAt, updates) ==
    update_scan(platform, createdAt, updates, 1, 1)

(* A pointer-to-Build and error result. *)
NoBuild ==
    [err |-> FALSE, found |-> FALSE, build |-> ZeroBuild]

build_pickPrevious_self(builds, i) ==
    builds[i]

(* build.fetchPreviousBuild: the element returned for a match at index i. *)
build_pickPrevious(builds, i) ==
    builds[i + 1]

RECURSIVE build_scanBuilds(_, _, _)
build_scanBuilds(builds, id, i) ==
    IF i > Len(builds) THEN NoBuild
    ELSE IF builds[i].Id = id /\ i < Len(builds)
         THEN [err |-> FALSE, found |-> TRUE, build |-> build_pickPrevious(builds, i)]
         ELSE build_scanBuilds(builds, id, i + 1)

(* build.fetchPreviousBuild, given FetchBuilds' answer. *)
build_fetchPreviousBuild(answer, id) ==
    IF answer.err THEN [err |-> TRUE, found |-> FALSE, build |-> ZeroBuild]
    ELSE build_scanBuilds(answer.builds, id, 1)

(***************************************************************************)
(* Webhook handlers: configuration, requests, signature check              *)
(***************************************************************************)

Secrets ==
    {"s", "t"}

(* No config.Config: a serverless invocation before config.LoadFromEnv.    *)
(* Options.Validate and LoadFromEnv both refuse an empty secret, so a      *)
(* configuration never carries this value.                                 *)
NoConfig ==
    ""

EnvNames ==
    {"ALLOW_PREVIEW", "ALLOW_PREVIEWS"}

(* The variables config.LoadFromEnv reads. *)
ConfigNames ==
    {"SLACK_TOKEN", "SLACK_CHANNEL", "EXPO_HMAC_SECRET", "EXPO_TOKEN"}

(* An environment in which none of the variables is set. *)
EmptyEnv ==
    [n \in {} |-> ""]

Setenv(environment, name, value) ==
    [n \in DOMAIN environment \cup {name} |-> IF n = name THEN value ELSE environment[n]]

Unsetenv(environment, name) ==
    [n \in DOMAIN environment \ {name} |-> environment[n]]

(* The preview toggles a process may be started with, as in the README's  *)
(* ALLOW_PREVIEWS=1.                                                       *)
PreviewEnvs ==
    {[n \in D |-> "1"] : D \in SUBSET EnvNames}

(* A complete configuration in the environment, with the given secret. *)
FullConfigEnv(k) ==
    [n \in ConfigNames |-> CASE n = "SLACK_TOKEN" -> "x"
                             [] n = "SLACK_CHANNEL" -> "c"
                             [] n = "EXPO_HMAC_SECRET" -> k
                             [] n = "EXPO_TOKEN" -> "y"]

(* Environments of a serverless deployment in which LoadFromEnv fails: no  *)
(* variable set, and a complete configuration with one variable unset or   *)
(* set to the empty string.                                                *)
BrokenConfigEnvs ==
    {EmptyEnv}
        \cup {Unsetenv(FullConfigEnv("s"), n) : n \in ConfigNames}
        \cup {Setenv(FullConfigEnv("s"), n, "") : n \in ConfigNames}

(* The environments of a serverless deployment. *)
FunctionEnvs ==
    BrokenConfigEnvs
        \cup {[n \in ConfigNames \cup DOMAIN p |->
                  IF n \in ConfigNames THEN FullConfigEnv(k)[n] ELSE p[n]] :
               k \in Secrets, p \in PreviewEnvs}

(* config.LoadFromEnv: an error when one of the four variables is unset or *)
(* empty (the map is ranged over in no fixed order, which decides only the *)
(* variable the error names), else the configuration built from them.      *)
config_LoadFromEnv(environment) ==
    IF \E from \in ConfigNames :
          from \notin DOMAIN environment \/ environment[from] = ""
    THEN [err |-> TRUE, ExpoHMACSecret |-> NoConfig]
    ELSE [err |-> FALSE, ExpoHMACSecret |-> environment["EXPO_HMAC_SECRET"]]

Routes ==
    {"build", "submit", "update"}

(* fmt.Sprintf("sha1=%v", hex.EncodeToString(digest.Sum(nil))) *)
expectedSignature(key, body) ==
    "sha1=" \o hmacSHA1Hex(key, body)

(* Header values a sender may put in a signature header for a body: none,  *)
(* the signature under either secret, the bare digest without the sha1=    *)
(* prefix, and the signature of another body.                              *)
HeaderValues(body) ==
    {""} \cup {expectedSignature(k, body) : k \in Secrets}
         \cup {hmacSHA1Hex("s", body), expectedSignature("s", EmptyObjectBody)}

Requests ==
    UNION {[method : {"POST", "GET"},
            readable : BOOLEAN,
            body : {b},
            signature : HeaderValues(b),
            expoSignature : HeaderValues(b)] : b \in Bodies}

NoRequest ==
    [method |-> "", readable |-> FALSE, body |-> "", signature |-> "", expoSignature |-> ""]

(* r.Header.Get("expo-signature") *)
build_receivedSignature(r) ==
    r.expoSignature

(* r.Header.Get("expo-signature") *)
submit_receivedSignature(r) ==
    r.expoSignature

update_receivedSignature_expo(r) ==
    r.expoSignature

(* r.Header.Get("signature") *)
update_receivedSignature(r) ==
    r.signature

Rejected(code, zero) ==
    [status |-> code, parsed |-> FALSE, payload |-> zero]

build_Handle_outcome_parseFirst(r, key) ==
    IF r.method # "POST" THEN Rejected(405, build_ZeroPayload)
    ELSE IF ~r.readable THEN Rejected(500, build_ZeroPayload)
    ELSE LET u == build_Unmarshal(r.body) IN
         IF u.err THEN [status |-> 400, parsed |-> TRUE, payload |-> build_ZeroPayload]
         ELSE IF expectedSignature(key, r.body) # build_receivedSignature(r)
              THEN [status |-> 401, parsed |-> TRUE, payload |-> build_ZeroPayload]
              ELSE [status |-> 200, parsed |-> TRUE, payload |-> u.payload]

(* build.Handle up to the status it writes: method, body read, signature,  *)
(* parse, in this order, each failure returning at once.                   *)
build_Handle_outcome(r, key) ==
    IF r.method # "POST" THEN Rejected(405, build_ZeroPayload)
    ELSE IF ~r.readable THEN Rejected(500, build_ZeroPayload)
    ELSE IF expectedSignature(key, r.body) # build_receivedSignature(r)
         THEN Rejected(401, build_ZeroPayload)
    ELSE LET u == build_Unmarshal(r.body) IN
         IF u.err THEN [status |-> 400, parsed |-> TRUE, payload |-> build_ZeroPayload]
         ELSE [status |-> 200, parsed |-> TRUE, payload |-> u.payload]

(* submit.Handle up to the status it writes. *)
submit_Handle_outcome(r, key) ==
    IF r.method # "POST" THEN Rejected(405, submit_ZeroPayload)
    ELSE IF ~r.readable THEN Rejected(500, submit_ZeroPayload)
    ELSE IF expectedSignature(key, r.body) # submit_receivedSignature(r)
         THEN Rejected(401, submit_ZeroPayload)
    ELSE LET u == submit_Unmarshal(r.body) IN
         IF u.err THEN [status |-> 400, parsed |-> TRUE, payload |-> submit_ZeroPayload]
         ELSE [status |-> 200, parsed |-> TRUE, payload |-> u.payload]

(* update.Handle up to the status it writes. *)
update_Handle_outcome(r, key) ==
    IF r.method # "POST" THEN Rejected(405, <<>>)
    ELSE IF ~r.readable THEN Rejected(500, <<>>)
    ELSE IF expectedSignature(key, r.body) # update_receivedSignature(r)
         THEN Rejected(401, <<>>)
    ELSE LET u == update_Unmarshal(r.body) IN
         IF u.err THEN [status |-> 400, parsed |-> TRUE, payload |-> <<>>]
         ELSE [status |-> 200, parsed |-> TRUE, payload |-> u.payload]

Handle_continues_always(status) ==
    TRUE

(* The handlers return right after writing an error status and go on to    *)
(* handlePayload only past WriteHeader(http.StatusOK).                     *)
Handle_continues(status) ==
    status = 200

(***************************************************************************)
(* Upstream answers                                                        *)
(***************************************************************************)

Update_Ua ==
    [Id |-> "Ua", Platform |-> "IOS", GitCommitHash |-> "aaaaaaa111", BranchName |-> "main", CreatedAt |-> "2024-01-02T01:00:00+01:00"]

Update_Ub ==
    [Id |-> "Ub", Platform |-> "ios", GitCommitHash |-> "bbbbbbb111", BranchName |-> "main", CreatedAt |-> "2024-01-01T00:00:00Z"]

Update_Uc ==
    [Id |-> "Uc", Platform |-> "ios", GitCommitHash |-> "ccccccc111", BranchName |-> "main", CreatedAt |-> "2024-01-03T00:00:00Z"]

Update_Ud ==
    [Id |-> "Ud", Platform |-> "ios", GitCommitHash |-> "ddddddd111", BranchName |-> "main", CreatedAt |-> "yesterday"]

Update_Ue ==
    [Id |-> "Ue", Platform |-> "android", GitCommitHash |-> "eeeeeee111", BranchName |-> "main", CreatedAt |-> "2024-01-02 00:00:00"]

Update_Uf ==
    [Id |-> "Uf", Platform |-> "android", GitCommitHash |-> "fffffff111", BranchName |-> "main", CreatedAt |-> "2024-01-01T00:00:00Z"]

(* The update of UpdateBody1 as the API lists it once published. *)
Update_U2 ==
    [Id |-> "U2", Platform |-> "ios", GitCommitHash |-> "2222222bbb", BranchName |-> "main", CreatedAt |-> "2024-01-02T00:00:00Z"]

Update_Ushort ==
    [Id |-> "Us", Platform |-> "ios", GitCommitHash |-> "abc", BranchName |-> "main", CreatedAt |-> "2024-01-01T00:00:00Z"]

Update_Ustaging ==
    [Id |-> "Ug", Platform |-> "android", GitCommitHash |-> "ggggggg111", BranchName |-> "staging", CreatedAt |-> "2024-01-01T00:00:00Z"]

Update_Ustaging_ios ==
    [Id |-> "Uh", Platform |-> "ios", GitCommitHash |-> "hhhhhhh111", BranchName |-> "staging", CreatedAt |-> "2024-01-01T00:00:00Z"]

Build_B1 ==
    [Id |-> "B1", Platform |-> "IOS", CreatedAt |-> "2024-01-01T00:00:00Z", GitCommitHash |-> "1010101aaa"]

Build_B2 ==
    [Id |-> "B2", Platform |-> "IOS", CreatedAt |-> "2024-01-02T00:00:00Z", GitCommitHash |-> "1111111aaa"]

Build_B3 ==
    [Id |-> "B3", Platform |-> "IOS", CreatedAt |-> "2024-01-03T00:00:00Z", GitCommitHash |-> "1212121aaa"]

Build_Bshort ==
    [Id |-> "B0", Platform |-> "IOS", CreatedAt |-> "2024-01-01T00:00:00Z", GitCommitHash |-> "abc"]

Build_Bbadtime ==
    [Id |-> "B0", Platform |-> "IOS", CreatedAt |-> "yesterday", GitCommitHash |-> "1010101aaa"]

(* FetchBuilds: an error, or a page of builds. *)
BuildsAnswers ==
    {[err |-> TRUE, builds |-> <<>>]} \cup
    [err : {FALSE},
     builds : {<<>>,
               <<Build_B3, Build_B2, Build_B1>>,
               <<Build_B3, Build_B2>>,
               <<Build_B3, Build_B1>>,
               <<Build_B2, Build_Bshort>>,
               <<Build_B2, Build_Bbadtime>>}]

ZeroChannel ==
    [UpdateBranches |-> <<>>]

(* FetchUpdateChannel: an error, or the channel's branches, each with its  *)
(* latest update groups: no branch; one branch with an update of each      *)
(* platform; a branch of the other platform before the matching one;       *)
(* updates of one platform on two branches, in either branch order, the    *)
(* first of them second in its group; branches that hold android updates   *)
(* only; branches without updates.                                         *)
ChannelAnswers ==
    {[err |-> TRUE, channel |-> ZeroChannel]} \cup
    [err : {FALSE},
     channel : {ZeroChannel,
                [UpdateBranches |-> <<[Name |-> "main", UpdateGroups |-> <<<<Update_Ub, Update_Uf>>>>]>>],
                [UpdateBranches |-> <<[Name |-> "staging", UpdateGroups |-> <<<<Update_Ustaging>>>>],
                                      [Name |-> "main", UpdateGroups |-> <<<<>>, <<Update_Ua>>>>]>>],
                [UpdateBranches |-> <<[Name |-> "staging",
                                       UpdateGroups |-> <<<<>>, <<Update_Ustaging, Update_Ustaging_ios>>>>],
                                      [Name |-> "main",
                                       UpdateGroups |-> <<<<Update_Uf, Update_Ub>>, <<Update_Ua>>>>]>>],
                [UpdateBranches |-> <<[Name |-> "main",
                                       UpdateGroups |-> <<<<Update_Uf, Update_Ub>>, <<Update_Ua>>>>],
                                      [Name |-> "staging",
                                       UpdateGroups |-> <<<<Update_Ustaging, Update_Ustaging_ios>>>>]>>],
                [UpdateBranches |-> <<[Name |-> "staging", UpdateGroups |-> <<<<Update_Ustaging>>>>],
                                      [Name |-> "main", UpdateGroups |-> <<<<Update_Uf>>>>]>>],
                [UpdateBranches |-> <<[Name |-> "staging", UpdateGroups |-> <<>>],
                                      [Name |-> "main", UpdateGroups |-> <<<<>>>>]>>]}]

(* FetchUpdates: an error, or the branch's update groups. *)
UpdatesAnswers ==
    {[err |-> TRUE, updates |-> <<>>]} \cup
    [err : {FALSE},
     updates : {<<>>,
                <<<<Update_Uc>>, <<Update_Ub>>>>,
                <<<<Update_Ua>>>>,
                <<<<Update_Ud, Update_Ue>>, <<Update_Ub, Update_Uf>>>>,
                <<<<Update_Ushort, Update_Uf>>>>,
                <<<<Update_U2, Update_Uf>>, <<Update_Ub>>>>}]

ZeroSubmission ==
    [Id |-> "", AppName |-> "", SubmittedBuild |-> ZeroBuild]

(* FetchSubmission's transport and parse outcome: an error, or the parsed  *)
(* byId object (the zero value when the API answers null).                 *)
SubmissionAnswers ==
    {[err |-> TRUE, submission |-> ZeroSubmission]} \cup
    [err : {FALSE},
     submission : {ZeroSubmission,
                   [Id |-> "S1", AppName |-> "avy", SubmittedBuild |-> Build_B2]}]

NotAsked ==
    [asked |-> FALSE]

Answered(a) ==
    [asked |-> TRUE, a |-> a]

NoAnswers ==
    [builds |-> NotAsked, channel |-> NotAsked, updates |-> NotAsked,
     submission |-> NotAsked, post |-> NotAsked]

Call(op, arg) ==
    [op |-> op, arg |-> arg]

(***************************************************************************)
(* Enrichment: pure parts                                                  *)
(***************************************************************************)

(* s[0:7] panics when s is shorter than 7 bytes. *)
SlicePanics(s) ==
    Len(s) < 7

(* expo.FormatBuildVersion: whether it panics on build.GitCommitHash[0:7]. *)
expo_FormatBuildVersion_panics(hash) ==
    SlicePanics(hash)

(* Error.Failed *)
Error_Failed(e) ==
    e.ErrorCode # "" \/ e.ErrorMessage # ""

RECURSIVE build_branchScan(_, _, _, _, _)
build_branchScan(platform, branches, b, g, u) ==
    IF b > Len(branches) THEN ""
    ELSE IF g > Len(branches[b].UpdateGroups) THEN build_branchScan(platform, branches, b + 1, 1, 1)
    ELSE IF u > Len(branches[b].UpdateGroups[g]) THEN build_branchScan(platform, branches, b, g + 1, 1)
    ELSE IF Platform_Equal(branches[b].UpdateGroups[g][u].Platform, platform)
         THEN branches[b].UpdateGroups[g][u].BranchName
         ELSE build_branchScan(platform, branches, b, g, u + 1)

build_updateBranchFor_lastMatch(platform, channel) ==
    LET br == channel.UpdateBranches
        P == UNION {UNION {{<<b, g, u>> : u \in 1..Len(br[b].UpdateGroups[g])}
                           : g \in 1..Len(br[b].UpdateGroups)}
                    : b \in 1..Len(br)}
        M == {p \in P : Platform_Equal(br[p[1]].UpdateGroups[p[2]][p[3]].Platform, platform)}
        lt(p, q) == \/ p[1] < q[1]
                    \/ (p[1] = q[1] /\ p[2] < q[2])
                    \/ (p[1] = q[1] /\ p[2] = q[2] /\ p[3] < q[3])
    IN IF M = {} THEN ""
       ELSE LET l == CHOOSE q \in M : \A r \in M : (r = q \/ lt(r, q))
            IN br[l[1]].UpdateGroups[l[2]][l[3]].BranchName

(* build.updateBranchFor; FetchUpdateChannel never returns a nil channel   *)
(* without an error.                                                       *)
build_updateBranchFor(platform, channel) ==
    build_branchScan(platform, channel.UpdateBranches, 1, 1, 1)

BlocksPanic ==
    [panic |-> TRUE, err |-> FALSE, blocks |-> <<>>]

BlocksError ==
    [panic |-> FALSE, err |-> TRUE, blocks |-> <<>>]

Blocks(bs) ==
    [panic |-> FALSE, err |-> FALSE, blocks |-> bs]

build_blocksFor_updateFirst(w, build, update) ==
    IF expo_FormatBuildVersion_panics(w.GitCommitHash) THEN BlocksPanic
    ELSE IF build.found /\ ParseRFC3339(build.build.CreatedAt).err THEN BlocksError
    ELSE IF build.found /\ expo_FormatBuildVersion_panics(build.build.GitCommitHash) THEN BlocksPanic
    ELSE IF update.found /\ ParseRFC3339(update.update.CreatedAt).err THEN BlocksError
    ELSE IF update.found /\ SlicePanics(update.update.GitCommitHash) THEN BlocksPanic
    ELSE Blocks(<<"header">>
                \o (IF update.found THEN <<"previousUpdate">> ELSE <<>>)
                \o (IF build.found THEN <<"previousBuild">> ELSE <<>>)
                \o <<IF Error_Failed(w) THEN "detailsWithError" ELSE "details">>)

build_blocksFor_dropBlock(w, build, update) ==
    IF expo_FormatBuildVersion_panics(w.GitCommitHash) THEN BlocksPanic
    ELSE IF build.found /\ ~ParseRFC3339(build.build.CreatedAt).err
            /\ expo_FormatBuildVersion_panics(build.build.GitCommitHash) THEN BlocksPanic
    ELSE IF update.found /\ ~ParseRFC3339(update.update.CreatedAt).err
            /\ SlicePanics(update.update.GitCommitHash) THEN BlocksPanic
    ELSE Blocks(<<"header">>
                \o (IF build.found /\ ~ParseRFC3339(build.build.CreatedAt).err
                    THEN <<"previousBuild">> ELSE <<>>)
                \o (IF update.found /\ ~ParseRFC3339(update.update.CreatedAt).err
                    THEN <<"previousUpdate">> ELSE <<>>)
                \o <<IF Error_Failed(w) THEN "detailsWithError" ELSE "details">>)

(* build.blocksFor: header, previous-build block, previous-update block,   *)
(* details; build and update are the possibly-nil previous events.         *)
build_blocksFor(w, build, update) ==
    IF expo_FormatBuildVersion_panics(w.GitCommitHash) THEN BlocksPanic
    ELSE IF build.found /\ ParseRFC3339(build.build.CreatedAt).err THEN BlocksError
    ELSE IF build.found /\ expo_FormatBuildVersion_panics(build.build.GitCommitHash) THEN BlocksPanic
    ELSE IF update.found /\ ParseRFC3339(update.update.CreatedAt).err THEN BlocksError
    ELSE IF update.found /\ SlicePanics(update.update.GitCommitHash) THEN BlocksPanic
    ELSE Blocks(<<"header">>
                \o (IF build.found THEN <<"previousBuild">> ELSE <<>>)
                \o (IF update.found THEN <<"previousUpdate">> ELSE <<>>)
                \o <<IF Error_Failed(w) THEN "detailsWithError" ELSE "details">>)

(* update.blocksFor: header, previous-update block, details. *)
update_blocksFor(update, previous) ==
    IF previous.found /\ ParseRFC3339(previous.update.CreatedAt).err THEN BlocksError
    ELSE IF previous.found /\ SlicePanics(previous.update.GitCommitHash) THEN BlocksPanic
    ELSE Blocks(<<"header">>
                \o (IF previous.found THEN <<"previousUpdate">> ELSE <<>>)
                \o <<"details">>)

(* submit.blocksFor: header (with the submitted build's version when the   *)
(* submission was fetched), details.                                       *)
submit_blocksFor(w, submission) ==
    IF submission.found /\ expo_FormatBuildVersion_panics(submission.submission.SubmittedBuild.GitCommitHash)
    THEN BlocksPanic
    ELSE Blocks(<<IF submission.found THEN "headerWithVersion" ELSE "header">>
                \o <<IF Error_Failed(w) THEN "detailsWithError" ELSE "details">>)

NoSubmission ==
    [panic |-> FALSE, err |-> FALSE, found |-> FALSE, submission |-> ZeroSubmission]

(* Client.FetchSubmission past the transport: an error, or the parsed      *)
(* submission after logging its FormatBuildVersion.                        *)
expo_FetchSubmission(answer) ==
    IF answer.err THEN [NoSubmission EXCEPT !.err = TRUE]
    ELSE IF expo_FormatBuildVersion_panics(answer.submission.SubmittedBuild.GitCommitHash)
         THEN [NoSubmission EXCEPT !.panic = TRUE]
         ELSE [panic |-> FALSE, err |-> FALSE, found |-> TRUE, submission |-> answer.submission]

PreviewPrefix ==
    "xxx"

(* strings.HasPrefix *)
HasPrefix(s, prefix) ==
    Len(s) >= Len(prefix) /\ SubSeq(s, 1, Len(prefix)) = prefix

(* update.handlePayload: whether an update is skipped as a preview. *)
update_skipPreview(environment, update) ==
    "ALLOW_PREVIEW" \notin DOMAIN environment /\ HasPrefix(update.Branch, PreviewPrefix)

(***************************************************************************)
(* Spec: one request through its handler                                   *)
(***************************************************************************)

ResolverUnused ==
    fn = "none" /\ args = <<>> /\ out = <<>>

(* main after the mux is built: ListenAndServe is serving and the goroutine *)
(* that calls Shutdown waits for the signal context.                       *)
Serving ==
    [signalled |-> FALSE, shutdown |-> "notCalled", exited |-> FALSE]

HandlerIdle ==
    /\ server = Serving
    /\ route = ""
    /\ req = NoRequest
    /\ pc = "idle"
    /\ written = <<>>
    /\ parsed = FALSE
    /\ payload = <<>>
    /\ idx = 0
    /\ previousBuild = NoBuild
    /\ previousUpdate = NoneFound
    /\ answers = NoAnswers
    /\ calls = <<>>
    /\ posted = <<>>
    /\ returned = FALSE

(* Either main has built the configuration from its flags and serves the  *)
(* three routes, or the handlers are deployed as serverless functions,     *)
(* which load the configuration from the environment on each invocation.   *)
Init ==
    /\ \/ secret \in Secrets /\ env \in PreviewEnvs
       \/ secret = NoConfig /\ env \in FunctionEnvs
    /\ HandlerIdle
    /\ ResolverUnused

(* A request is handed to the handler its path selects: by main's mux to   *)
(* Handle with main's configuration, or by the serverless platform to      *)
(* Handler.                                                                *)
Receive ==
    /\ pc = "idle"
    /\ \E r \in Routes, q \in Requests :
          /\ route' = r
          /\ req' = q
    /\ pc' = IF secret = NoConfig THEN "handler" ELSE "handle"
    /\ UNCHANGED <<secret, env, written, parsed, payload, idx, previousBuild,
                   previousUpdate, answers, calls, posted, returned, fn, args, out, server>>

(* Handle from entry to the WriteHeader call; a handler that does not go   *)
(* on to handlePayload returns.                                            *)
Handle_respond(outcome, nextPc) ==
    /\ written' = Append(written, outcome.status)
    /\ parsed' = outcome.parsed
    /\ payload' = outcome.payload
    /\ IF Handle_continues(outcome.status)
       THEN pc' = nextPc /\ returned' = FALSE
       ELSE pc' = "done" /\ returned' = TRUE
    /\ UNCHANGED <<env, route, req, previousBuild, previousUpdate,
                   answers, calls, posted, fn, args, out, server>>

build_Handle ==
    /\ pc = "handle" /\ route = "build"
    /\ Handle_respond(build_Handle_outcome(req, secret), "build_handlePayload")
    /\ idx' = idx
    /\ secret' = secret

submit_Handle ==
    /\ pc = "handle" /\ route = "submit"
    /\ Handle_respond(submit_Handle_outcome(req, secret), "submit_handlePayload")
    /\ idx' = idx
    /\ secret' = secret

update_Handle ==
    /\ pc = "handle" /\ route = "update"
    /\ Handle_respond(update_Handle_outcome(req, secret), "update_handlePayload")
    /\ idx' = 1
    /\ secret' = secret

(* Handler, on a failure of config.LoadFromEnv: WriteHeader(500) and       *)
(* return, Handle is not called.                                           *)
Handler_fail ==
    /\ written' = Append(written, 500)
    /\ pc' = "done"
    /\ returned' = TRUE
    /\ UNCHANGED <<secret, env, route, req, parsed, payload, idx, previousBuild,
                   previousUpdate, answers, calls, posted, fn, args, out, server>>

(* The serverless entry points: load the configuration from the            *)
(* environment, answer 500 when that fails, else call Handle with it.      *)
build_Handler ==
    /\ pc = "handler" /\ route = "build"
    /\ LET cfg == config_LoadFromEnv(env) IN
       IF cfg.err THEN Handler_fail
       ELSE /\ secret' = cfg.ExpoHMACSecret
            /\ Handle_respond(build_Handle_outcome(req, cfg.ExpoHMACSecret),
                              "build_handlePayload")
            /\ idx' = idx

submit_Handler ==
    /\ pc = "handler" /\ route = "submit"
    /\ LET cfg == config_LoadFromEnv(env) IN
       IF cfg.err THEN Handler_fail
       ELSE /\ secret' = cfg.ExpoHMACSecret
            /\ Handle_respond(submit_Handle_outcome(req, cfg.ExpoHMACSecret),
                              "submit_handlePayload")
            /\ idx' = idx

update_Handler ==
    /\ pc = "handler" /\ route = "update"
    /\ LET cfg == config_LoadFromEnv(env) IN
       IF cfg.err THEN Handler_fail
       ELSE /\ secret' = cfg.ExpoHMACSecret
            /\ Handle_respond(update_Handle_outcome(req, cfg.ExpoHMACSecret),
                              "update_handlePayload")
            /\ idx' = 1

(* handlePayload returns, and with it Handle: the response completes. *)
Return ==
    /\ pc' = "done"
    /\ returned' = TRUE

(* A panic unwinds the handler's goroutine; the handler never returns. *)
Panic ==
    /\ pc' = "panicked"
    /\ returned' = FALSE

PostCall_twice(blocks, nextPc) ==
    /\ calls' = calls \o <<Call("PostMessage", ""), Call("PostMessage", "")>>
    /\ posted' = posted \o <<blocks, blocks>>
    /\ pc' = nextPc
    /\ returned' = FALSE

(* PostMessageContext is called with the blocks. *)
PostCall(blocks, nextPc) ==
    /\ calls' = Append(calls, Call("PostMessage", ""))
    /\ posted' = Append(posted, blocks)
    /\ pc' = nextPc
    /\ returned' = FALSE

(* ---- build.handlePayload ---- *)

build_FetchBuilds_call ==
    /\ pc = "build_handlePayload"
    /\ calls' = Append(calls, Call("FetchBuilds", payload.Channel))
    /\ pc' = "build_awaitBuilds"
    /\ UNCHANGED <<secret, env, route, req, written, parsed, payload, idx, previousBuild,
                   previousUpdate, answers, posted, returned, fn, args, out, server>>

build_FetchBuilds_return ==
    /\ pc = "build_awaitBuilds"
    /\ \E a \in BuildsAnswers :
          /\ answers' = [answers EXCEPT !.builds = Answered(a)]
          /\ previousBuild' = build_fetchPreviousBuild(a, payload.Id)
    /\ pc' = "build_fetchPreviousUpdate"
    /\ UNCHANGED <<secret, env, route, req, written, parsed, payload, idx,
                   previousUpdate, calls, posted, returned, fn, args, out, server>>

(* fetchPreviousUpdate up to the FetchUpdateChannel call. *)
build_fetchPreviousUpdate_begin ==
    /\ pc = "build_fetchPreviousUpdate"
    /\ IF ParseRFC3339(payload.CreatedAt).err
       THEN /\ previousUpdate' = ScanError
            /\ pc' = "build_blocksFor"
            /\ calls' = calls
       ELSE /\ previousUpdate' = previousUpdate
            /\ pc' = "build_awaitChannel"
            /\ calls' = Append(calls, Call("FetchUpdateChannel", payload.Channel))
    /\ UNCHANGED <<secret, env, route, req, written, parsed, payload, idx, previousBuild,
                   answers, posted, returned, fn, args, out, server>>

(* fetchPreviousUpdate from FetchUpdateChannel's answer to the FetchUpdates call. *)
build_FetchUpdateChannel_return ==
    /\ pc = "build_awaitChannel"
    /\ \E a \in ChannelAnswers :
          /\ answers' = [answers EXCEPT !.channel = Answered(a)]
          /\ LET updateBranch == build_updateBranchFor(payload.Platform, a.channel) IN
             IF a.err \/ updateBranch = ""
             THEN /\ previousUpdate' = ScanError
                  /\ pc' = "build_blocksFor"
                  /\ calls' = calls
             ELSE /\ previousUpdate' = previousUpdate
                  /\ pc' = "build_awaitUpdates"
                  /\ calls' = Append(calls, Call("FetchUpdates", updateBranch))
    /\ UNCHANGED <<secret, env, route, req, written, parsed, payload, idx, previousBuild,
                   posted, returned, fn, args, out, server>>

build_FetchUpdates_return ==
    /\ pc = "build_awaitUpdates"
    /\ \E a \in UpdatesAnswers :
          /\ answers' = [answers EXCEPT !.updates = Answered(a)]
          /\ previousUpdate' =
                IF a.err THEN ScanError
                ELSE build_previousUpdateFor(payload.Platform, ParseRFC3339(payload.CreatedAt).t, a.updates)
    /\ pc' = "build_blocksFor"
    /\ UNCHANGED <<secret, env, route, req, written, parsed, payload, idx, previousBuild,
                   calls, posted, returned, fn, args, out, server>>

(* blocksFor, then the PostMessageContext call. *)
build_blocksFor_post ==
    /\ pc = "build_blocksFor"
    /\ LET b == build_blocksFor(payload, previousBuild, previousUpdate) IN
       IF b.panic THEN Panic /\ UNCHANGED <<calls, posted>>
       ELSE IF b.err THEN Return /\ UNCHANGED <<calls, posted>>
       ELSE PostCall(b.blocks, "build_awaitPost")
    /\ UNCHANGED <<secret, env, route, req, written, parsed, payload, idx, previousBuild,
                   previousUpdate, answers, fn, args, out, server>>

build_Post_return ==
    /\ pc = "build_awaitPost"
    /\ \E failed \in BOOLEAN : answers' = [answers EXCEPT !.post = Answered(failed)]
    /\ Return
    /\ UNCHANGED <<secret, env, route, req, written, parsed, payload, idx, previousBuild,
                   previousUpdate, calls, posted, fn, args, out, server>>

(* ---- submit.handlePayload ---- *)

submit_FetchSubmission_call ==
    /\ pc = "submit_handlePayload"
    /\ calls' = Append(calls, Call("FetchSubmission", payload.Id))
    /\ pc' = "submit_awaitSubmission"
    /\ UNCHANGED <<secret, env, route, req, written, parsed, payload, idx, previousBuild,
                   previousUpdate, answers, posted, returned, fn, args, out, server>>

(* From FetchSubmission's answer through blocksFor to the post call. *)
submit_FetchSubmission_return ==
    /\ pc = "submit_awaitSubmission"
    /\ \E a \in SubmissionAnswers :
          /\ answers' = [answers EXCEPT !.submission = Answered(a)]
          /\ LET s == expo_FetchSubmission(a)
                 b == submit_blocksFor(payload, s)
             IN IF s.panic \/ b.panic THEN Panic /\ UNCHANGED <<calls, posted>>
                ELSE PostCall(b.blocks, "submit_awaitPost")
    /\ UNCHANGED <<secret, env, route, req, written, parsed, payload, idx, previousBuild,
                   previousUpdate, fn, args, out, server>>

submit_Post_return ==
    /\ pc = "submit_awaitPost"
    /\ \E failed \in BOOLEAN : answers' = [answers EXCEPT !.post = Answered(failed)]
    /\ Return
    /\ UNCHANGED <<secret, env, route, req, written, parsed, payload, idx, previousBuild,
                   previousUpdate, calls, posted, fn, args, out, server>>

(* ---- update.handlePayload ---- *)

(* The range loop is exhausted: handlePayload returns. *)
update_loop_end ==
    /\ pc = "update_handlePayload"
    /\ idx > Len(payload)
    /\ Return
    /\ UNCHANGED <<secret, env, route, req, written, parsed, payload, idx, previousBuild,
                   previousUpdate, answers, calls, posted, fn, args, out, server>>

(* A preview update is skipped. *)
update_loop_skip ==
    /\ pc = "update_handlePayload"
    /\ idx <= Len(payload)
    /\ update_skipPreview(env, payload[idx])
    /\ idx' = idx + 1
    /\ UNCHANGED <<secret, env, route, req, pc, written, parsed, payload, previousBuild,
                   previousUpdate, answers, calls, posted, returned, fn, args, out, server>>

(* fetchPreviousUpdate up to the FetchUpdates call. *)
update_fetchPreviousUpdate_begin ==
    /\ pc = "update_handlePayload"
    /\ idx <= Len(payload)
    /\ ~update_skipPreview(env, payload[idx])
    /\ IF ParseRFC3339(payload[idx].CreatedAt).err
       THEN /\ previousUpdate' = ScanError
            /\ pc' = "update_blocksFor"
            /\ calls' = calls
       ELSE /\ previousUpdate' = NoneFound
            /\ pc' = "update_awaitUpdates"
            /\ calls' = Append(calls, Call("FetchUpdates", payload[idx].Branch))
    /\ answers' = [answers EXCEPT !.updates = NotAsked]
    /\ UNCHANGED <<secret, env, route, req, written, parsed, payload, idx, previousBuild,
                   posted, returned, fn, args, out, server>>

update_FetchUpdates_return ==
    /\ pc = "update_awaitUpdates"
    /\ \E a \in UpdatesAnswers :
          /\ answers' = [answers EXCEPT !.updates = Answered(a)]
          /\ previousUpdate' =
                IF a.err THEN ScanError
                ELSE update_previousUpdateFor(payload[idx].Platform,
                                              ParseRFC3339(payload[idx].CreatedAt).t, a.updates)
    /\ pc' = "update_blocksFor"
    /\ UNCHANGED <<secret, env, route, req, written, parsed, payload, idx, previousBuild,
                   calls, posted, returned, fn, args, out, server>>

(* blocksFor, then the PostMessageContext call. *)
update_blocksFor_post ==
    /\ pc = "update_blocksFor"
    /\ LET b == update_blocksFor(payload[idx], previousUpdate) IN
       IF b.panic THEN Panic /\ UNCHANGED <<calls, posted>>
       ELSE IF b.err THEN Return /\ UNCHANGED <<calls, posted>>
       ELSE PostCall(b.blocks, "update_awaitPost")
    /\ UNCHANGED <<secret, env, route, req, written, parsed, payload, idx, previousBuild,
                   previousUpdate, answers, fn, args, out, server>>

(* The post returns and the loop moves on to the next update. *)
update_Post_return ==
    /\ pc = "update_awaitPost"
    /\ \E failed \in BOOLEAN : answers' = [answers EXCEPT !.post = Answered(failed)]
    /\ idx' = idx + 1
    /\ pc' = "update_handlePayload"
    /\ UNCHANGED <<secret, env, route, req, written, parsed, payload, previousBuild,
                   previousUpdate, calls, posted, returned, fn, args, out, server>>

(* The steps the handler's goroutine takes by itself. *)
HandlerStep ==
    \/ build_Handle
    \/ submit_Handle
    \/ update_Handle
    \/ build_FetchBuilds_call
    \/ build_fetchPreviousUpdate_begin
    \/ build_blocksFor_post
    \/ submit_FetchSubmission_call
    \/ update_loop_end
    \/ update_loop_skip
    \/ update_fetchPreviousUpdate_begin
    \/ update_blocksFor_post

(* A serverless invocation enters its handler. *)
FunctionStep ==
    \/ build_Handler
    \/ submit_Handler
    \/ update_Handler

(* The steps that need the Expo API or Slack to answer. *)
AnswerStep ==
    \/ build_FetchBuilds_return
    \/ build_FetchUpdateChannel_return
    \/ build_FetchUpdates_return
    \/ build_Post_return
    \/ submit_FetchSubmission_return
    \/ submit_Post_return
    \/ update_FetchUpdates_return
    \/ update_Post_return

Next ==
    \/ Receive
    \/ FunctionStep
    \/ HandlerStep
    \/ AnswerStep

Spec ==
    Init /\ [][Next]_vars

(***************************************************************************)
(* SpecResolve: the resolver's scans on bounded inputs                     *)
(***************************************************************************)

MaxScanSize == 5
MaxBuilds == 3

(* Updates as the upstream API returns them; between them they match or    *)
(* miss a platform in either spelling, lie before, at and after the        *)
(* reference times, and carry well-formed and malformed timestamps.        *)
ScanMembers ==
    {Update_Ua, Update_Ub, Update_Uc, Update_Ud, Update_Ue, Update_Uf}

SeqsUpTo(S, n) ==
    UNION {[1..k -> S] : k \in 0..n}

(* Sequences of groups with (number of groups + number of members) <= n. *)
RECURSIVE GroupSeqs(_)
GroupSeqs(n) ==
    IF n <= 0 THEN {<<>>}
    ELSE {<<>>} \cup
         UNION {{<<g>> \o r : r \in GroupSeqs(n - 1 - Len(g))} : g \in SeqsUpTo(ScanMembers, n - 1)}

ScanArgs ==
    [platform : {"ios", "ANDROID"},
     createdAt : {1704067200, 1704153600},
     updates : GroupSeqs(MaxScanSize)]

PageBuilds ==
    {Build_B1, Build_B2, Build_B3}

BuildArgs ==
    [id : {"B1", "B2", "B9"},
     answer : [err : {FALSE}, builds : SeqsUpTo(PageBuilds, MaxBuilds)]
              \cup {[err |-> TRUE, builds |-> <<>>]}]

Pending ==
    [done |-> FALSE]

Done(r) ==
    [done |-> TRUE, r |-> r]

InitResolve ==
    /\ \/ fn = "previousUpdateFor" /\ args \in ScanArgs
       \/ fn = "fetchPreviousBuild" /\ args \in BuildArgs
    /\ out = [b |-> Pending, u |-> Pending]
    /\ secret = "s" /\ env = EmptyEnv
    /\ HandlerIdle

RunBuildPreviousUpdateFor ==
    /\ fn = "previousUpdateFor"
    /\ ~out.b.done
    /\ out' = [out EXCEPT !.b = Done(build_previousUpdateFor(args.platform, args.createdAt, args.updates))]
    /\ UNCHANGED <<fn, args>>
    /\ UNCHANGED hvars

RunUpdatePreviousUpdateFor ==
    /\ fn = "previousUpdateFor"
    /\ ~out.u.done
    /\ out' = [out EXCEPT !.u = Done(update_previousUpdateFor(args.platform, args.createdAt, args.updates))]
    /\ UNCHANGED <<fn, args>>
    /\ UNCHANGED hvars

RunFetchPreviousBuild ==
    /\ fn = "fetchPreviousBuild"
    /\ ~out.b.done
    /\ out' = [out EXCEPT !.b = Done(build_fetchPreviousBuild(args.answer, args.id))]
    /\ UNCHANGED <<fn, args>>
    /\ UNCHANGED hvars

NextResolve ==
    \/ RunBuildPreviousUpdateFor
    \/ RunUpdatePreviousUpdateFor
    \/ RunFetchPreviousBuild

SpecResolve ==
    InitResolve /\ [][NextResolve]_vars

(***************************************************************************)
(* What the resolver is required to return, stated over positions          *)
(***************************************************************************)

Positions(updates) ==
    UNION {{<<i, j>> : j \in 1..Len(updates[i])} : i \in 1..Len(updates)}

Precedes(p, q) ==
    p[1] < q[1] \/ (p[1] = q[1] /\ p[2] < q[2])

At(updates, p) ==
    updates[p[1]][p[2]]

Matches(platform, m) ==
    ToLower(m.Platform) = ToLower(platform)

Parses(m) ==
    ~ParseRFC3339(m.CreatedAt).err

NotAfter(m, createdAt) ==
    Parses(m) /\ ParseRFC3339(m.CreatedAt).t <= createdAt

Qualifying(platform, createdAt, updates) ==
    {p \in Positions(updates) :
        Matches(platform, At(updates, p)) /\ NotAfter(At(updates, p), createdAt)}

IsFirstOf(p, Q) ==
    p \in Q /\ \A q \in Q : q = p \/ Precedes(p, q)

FirstQualifying(r, platform, createdAt, updates) ==
    LET Q == Qualifying(platform, createdAt, updates) IN
    /\ ~r.err
    /\ r.found <=> Q # {}
    /\ r.found => /\ IsFirstOf(<<r.i, r.j>>, Q)
                  /\ r.update = At(updates, <<r.i, r.j>>)

ScanDone ==
    fn = "previousUpdateFor" /\ out.b.done /\ out.u.done

(* C1: when every timestamp parses, both copies of previousUpdateFor       *)
(* return exactly the first member, in group order then member order,      *)
(* whose platform equals the requested one case-insensitively and whose    *)
(* creation time is not after the reference time (a tie is accepted); a    *)
(* later or chronologically closer member is never preferred.              *)
C1_FirstQualifyingReturned ==
    (fn = "previousUpdateFor" /\ \A p \in Positions(args.updates) : Parses(At(args.updates, p)))
    => /\ out.b.done => FirstQualifying(out.b.r, args.platform, args.createdAt, args.updates)
       /\ out.u.done => FirstQualifying(out.u.r, args.platform, args.createdAt, args.updates)

(* The scan skipped an earlier matching member as later than the reference *)
(* and returned a member although a later one is chronologically closer.   *)
C1_Witness ==
    /\ ScanDone
    /\ \A p \in Positions(args.updates) : Parses(At(args.updates, p))
    /\ out.b.r.found /\ out.u.r.found
    /\ \E p \in Positions(args.updates) :
          /\ Precedes(p, <<out.b.r.i, out.b.r.j>>)
          /\ Matches(args.platform, At(args.updates, p))
    /\ \E q \in Qualifying(args.platform, args.createdAt, args.updates) :
          /\ Precedes(<<out.b.r.i, out.b.r.j>>, q)
          /\ ParseRFC3339(At(args.updates, q).CreatedAt).t > ParseRFC3339(out.b.r.update.CreatedAt).t
          /\ ParseRFC3339(At(args.updates, q).CreatedAt).t = args.createdAt

(* C2: previousUpdateFor returns none found, with no error, when there are *)
(* no groups, when every group is empty, and when no member matches the    *)
(* platform, whatever timestamps the non-matching members carry.           *)
C2_NoneWhenNoMatch ==
    (fn = "previousUpdateFor"
       /\ \A p \in Positions(args.updates) : ~Matches(args.platform, At(args.updates, p)))
    => /\ out.b.done => out.b.r = NoneFound
       /\ out.u.done => out.u.r = NoneFound

(* Two groups, one of them empty, no member of the platform and one member *)
(* with a malformed timestamp: none found.                                 *)
C2_Witness ==
    /\ ScanDone
    /\ Len(args.updates) = 2
    /\ \E i \in 1..2 : args.updates[i] = <<>>
    /\ \E p \in Positions(args.updates) : ~Parses(At(args.updates, p))
    /\ \A p \in Positions(args.updates) : ~Matches(args.platform, At(args.updates, p))
    /\ out.b.r = NoneFound

FirstIndexOf(builds, id) ==
    LET M == {i \in 1..Len(builds) : builds[i].Id = id} IN
    IF M = {} THEN 0 ELSE CHOOSE i \in M : \A k \in M : i <= k

(* C3: given the fetched page, fetchPreviousBuild returns the element      *)
(* right after the entry with the webhook's build id, and none, without an *)
(* error, when that entry is last, when the id is absent and when the page *)
(* is empty.                                                               *)
C3_NextElementOfPage ==
    (fn = "fetchPreviousBuild" /\ out.b.done /\ ~args.answer.err)
    => LET builds == args.answer.builds
           first == FirstIndexOf(builds, args.id)
       IN /\ ~out.b.r.err
          /\ out.b.r.found <=> (first # 0 /\ first # Len(builds))
          /\ out.b.r.found => out.b.r.build = builds[first + 1]

(* The page [B3, B2, B1] and the webhook build B2: B1 is returned. *)
C3_Witness ==
    /\ fn = "fetchPreviousBuild" /\ out.b.done
    /\ ~args.answer.err
    /\ Len(args.answer.builds) = 3
    /\ args.answer.builds[1].Id = "B3" /\ args.answer.builds[2].Id = "B2" /\ args.answer.builds[3].Id = "B1"
    /\ args.id = "B2"
    /\ out.b.r.found /\ out.b.r.build.Id = "B1"

(***************************************************************************)
(* The handlers' contract                                                  *)
(***************************************************************************)

(* The request has been answered or its handler has panicked. *)
Responded ==
    pc \notin {"idle", "handler", "handle"}

(* Handle has acted on the request: main's mux called it, or the           *)
(* serverless Handler did after loading the configuration.                 *)
Handled ==
    Responded /\ secret # NoConfig

(* The header each route is documented to consult. *)
SignatureHeaderOf(rt, r) ==
    IF rt = "update" THEN r.signature ELSE r.expoSignature

SignatureMismatch ==
    SignatureHeaderOf(route, req) # "sha1=" \o hmacSHA1Hex(secret, req.body)

ParseFails(rt, body) ==
    CASE rt = "build" -> build_Unmarshal(body).err
      [] rt = "submit" -> submit_Unmarshal(body).err
      [] rt = "update" -> update_Unmarshal(body).err

ExpectedStatus ==
    IF req.method # "POST" THEN 405
    ELSE IF ~req.readable THEN 500
    ELSE IF SignatureMismatch THEN 401
    ELSE IF ParseFails(route, req.body) THEN 400
    ELSE 200

(* C4 as stated: in each of the three handlers every request gets exactly  *)
(* one status written, chosen by precedence: 405 for a method other than   *)
(* POST, else 500 for an unreadable body, else 401 for a signature         *)
(* mismatch, else 400 for a body that does not parse as the route's        *)
(* payload, else 200; in particular a request that is not a POST gets 405. *)
C4_EveryRequestByPrecedence ==
    /\ Responded => Len(written) = 1
    /\ Handled => written = <<ExpectedStatus>>
    /\ (Responded /\ req.method # "POST") => written = <<405>>

(* C4, amended: every request that reaches Handle, from main's mux or from *)
(* the serverless Handler once config.LoadFromEnv succeeded, gets exactly  *)
(* one status written, chosen by the precedence 405, 500, 401, 400, 200;   *)
(* a request to the serverless Handler whose configuration cannot be       *)
(* loaded gets exactly one 500, whatever its method, and the handler       *)
(* returns.                                                                *)
C4_StatusPrecedence ==
    /\ Handled => written = <<ExpectedStatus>>
    /\ (Responded /\ ~Handled)
       => (config_LoadFromEnv(env).err /\ written = <<500>> /\ pc = "done" /\ returned)

(* A badly signed POST whose body is not JSON was answered 401. *)
C4_Witness ==
    /\ Handled
    /\ req.method = "POST" /\ req.readable
    /\ req.body = GarbageBody
    /\ SignatureMismatch
    /\ written = <<401>>

Enriching ==
    pc \notin {"idle", "handler", "handle", "done"}

(* C5: no upstream fetch and no chat post happens before the 200 has been  *)
(* written for the request, and a request answered 401, 400, 405 or 500    *)
(* never reaches enrichment.                                               *)
C5_AckBeforeEnrichment ==
    /\ (calls # <<>> \/ posted # <<>> \/ Enriching) => written = <<200>>
    /\ (written # <<>> /\ written[1] \in {401, 400, 405, 500})
       => (pc = "done" /\ returned /\ calls = <<>> /\ posted = <<>>)

(* A build request was acknowledged, looked up upstream and posted. *)
C5_Witness ==
    /\ route = "build"
    /\ written = <<200>>
    /\ Len(calls) >= 3
    /\ posted # <<>>

AwaitingAnswer ==
    pc \in {"build_awaitBuilds", "build_awaitChannel", "build_awaitUpdates", "build_awaitPost",
            "submit_awaitSubmission", "submit_awaitPost",
            "update_awaitUpdates", "update_awaitPost"}

(* C6: enrichment is detached from the handler: while enrichment waits for *)
(* the Expo API or Slack, the response has completed or the handler can    *)
(* complete it by itself, so a hung upstream call cannot hold it open.     *)
C6_ResponseNotHeldOpen ==
    AwaitingAnswer => (returned \/ ENABLED HandlerStep)

(* C7 as stated: every request whose signature header does not equal the   *)
(* expected signature is answered 401 and causes no parsing, no upstream   *)
(* call and no chat message.                                               *)
C7_AnyMismatchIs401 ==
    (Handled /\ SignatureMismatch)
    => (written = <<401>> /\ ~parsed /\ calls = <<>> /\ posted = <<>>)

(* C7, amended: a POST request that reached Handle, whose body was read    *)
(* and whose signature header (expo-signature on build and submit,         *)
(* signature on update) does not equal the expected signature is answered  *)
(* 401 and causes no parsing, no upstream call and no chat message.        *)
C7_BadSignatureRejected ==
    (Handled /\ req.method = "POST" /\ req.readable /\ SignatureMismatch)
    => (written = <<401>> /\ pc = "done" /\ ~parsed /\ calls = <<>> /\ posted = <<>>)

(* An update request carrying the valid signature only in expo-signature,  *)
(* the header of the other routes, was rejected.                           *)
C7_Witness ==
    /\ Handled
    /\ route = "update"
    /\ req.method = "POST" /\ req.readable
    /\ req.expoSignature = "sha1=" \o hmacSHA1Hex(secret, req.body)
    /\ req.signature = ""
    /\ written = <<401>>

Finished ==
    pc \in {"done", "panicked"}

HasBlock(blocks, kind) ==
    \E k \in 1..Len(blocks) : blocks[k] = kind

Failed(answer) ==
    answer.asked /\ answer.a.err

(* C8: an upstream fetch failure during enrichment is treated as no        *)
(* previous found: the message for the event is still posted, without the  *)
(* comparison block of the piece that failed.                              *)
C8_FetchFailureStillPosts ==
    /\ (route = "build" /\ Finished /\ Failed(answers.builds))
       => (Len(posted) = 1 /\ ~HasBlock(posted[1], "previousBuild"))
    /\ (route = "build" /\ Finished /\ (Failed(answers.channel) \/ Failed(answers.updates)))
       => (Len(posted) = 1 /\ ~HasBlock(posted[1], "previousUpdate"))
    /\ (route = "submit" /\ Finished /\ Failed(answers.submission))
       => (Len(posted) = 1 /\ posted[1][1] = "header")
    /\ (route = "update" /\ pc = "update_awaitPost" /\ Failed(answers.updates))
       => (posted # <<>> /\ ~HasBlock(posted[Len(posted)], "previousUpdate"))

(* C9: a validly signed, parseable build webhook whose id is absent from   *)
(* the fetched page is answered 200 and results in one chat message        *)
(* without a previous-build block.                                         *)
C9_AbsentIdStillPosts ==
    (/\ route = "build" /\ Finished /\ written = <<200>>
     /\ answers.builds.asked /\ ~answers.builds.a.err
     /\ \A k \in 1..Len(answers.builds.a.builds) : answers.builds.a.builds[k].Id # payload.Id)
    => (Len(posted) = 1 /\ ~HasBlock(posted[1], "previousBuild"))

CallsOf(ops) ==
    {k \in 1..Len(calls) : calls[k].op \in ops}

(* A matching member with a malformed timestamp that the scan reaches: no  *)
(* member before it qualifies.                                             *)
ReachesMalformed(platform, createdAt, updates) ==
    \E p \in Positions(updates) :
        /\ Matches(platform, At(updates, p)) /\ ~Parses(At(updates, p))
        /\ \A q \in Qualifying(platform, createdAt, updates) : ~Precedes(q, p)

(* C10: timestamps are parsed before they are compared and a malformed one *)
(* is an error, not a crash: with a malformed createdAt in the payload the *)
(* previous-update lookup fails without issuing a fetch, and a matching    *)
(* member with a malformed timestamp that the scan reaches fails the scan, *)
(* which returns no later candidate.                                       *)
C10_MalformedTimestampFails ==
    /\ (/\ route = "build"
        /\ pc \in {"build_blocksFor", "build_awaitPost", "done", "panicked"}
        /\ written = <<200>>
        /\ ParseRFC3339(payload.CreatedAt).err)
       => (previousUpdate = ScanError /\ CallsOf({"FetchUpdateChannel", "FetchUpdates"}) = {})
    /\ (route = "update" /\ pc \in {"update_blocksFor", "update_awaitPost"})
       => /\ ParseRFC3339(payload[idx].CreatedAt).err
             => (previousUpdate = ScanError /\ ~answers.updates.asked)
          /\ Cardinality(CallsOf({"FetchUpdates"}))
               = Cardinality({k \in 1..idx : /\ ~update_skipPreview(env, payload[k])
                                             /\ ~ParseRFC3339(payload[k].CreatedAt).err})
    /\ (/\ pc \in {"build_blocksFor", "update_blocksFor"}
        /\ answers.updates.asked /\ ~answers.updates.a.err
        /\ LET w == IF route = "build" THEN payload ELSE payload[idx] IN
           ReachesMalformed(w.Platform, ParseRFC3339(w.CreatedAt).t, answers.updates.a.updates))
       => (previousUpdate = ScanError /\ pc # "panicked")

(* The build handler's scan met a matching member with a malformed         *)
(* timestamp although a later member qualifies, and failed.                *)
C10_Witness ==
    /\ route = "build" /\ pc = "build_blocksFor"
    /\ answers.updates.asked /\ ~answers.updates.a.err
    /\ ReachesMalformed(payload.Platform, ParseRFC3339(payload.CreatedAt).t, answers.updates.a.updates)
    /\ Qualifying(payload.Platform, ParseRFC3339(payload.CreatedAt).t, answers.updates.a.updates) # {}
    /\ previousUpdate = ScanError

(***************************************************************************)
(* The Expo API client: one HTTP exchange per operation                    *)
(***************************************************************************)

SubmissionResp_found ==
    "{\"data\":{\"submissions\":{\"byId\":{\"id\":\"S1\",\"app\":{\"id\":\"app\",\"name\":\"avy\"},\"submittedBuild\":{\"id\":\"B2\",\"platform\":\"IOS\",\"createdAt\":\"2024-01-02T00:00:00Z\",\"gitCommitHash\":\"1111111aaa\"}}}}}"

SubmissionResp_shortHash ==
    "{\"data\":{\"submissions\":{\"byId\":{\"id\":\"S2\",\"app\":{\"id\":\"app\",\"name\":\"avy\"},\"submittedBuild\":{\"id\":\"B0\",\"platform\":\"IOS\",\"createdAt\":\"2024-01-01T00:00:00Z\",\"gitCommitHash\":\"abc\"}}}}}"

SubmissionResp_null ==
    "{\"data\":{\"submissions\":{\"byId\":null}}}"

SubmissionResp_notFound ==
    "{\"errors\":[{\"message\":\"not found\"}],\"data\":null}"

BuildsResp_page ==
    "{\"data\":{\"app\":{\"byId\":{\"builds\":[{\"id\":\"B3\",\"platform\":\"IOS\",\"createdAt\":\"2024-01-03T00:00:00Z\",\"gitCommitHash\":\"1212121aaa\"},{\"id\":\"B2\",\"platform\":\"IOS\",\"createdAt\":\"2024-01-02T00:00:00Z\",\"gitCommitHash\":\"1111111aaa\"}]}}}}"

BuildsResp_empty ==
    "{\"data\":{\"app\":{\"byId\":{\"builds\":[]}}}}"

ChannelResp_found ==
    "{\"data\":{\"app\":{\"byId\":{\"updateChannelByName\":{\"id\":\"C1\",\"name\":\"prod\",\"updateBranches\":[{\"id\":\"R1\",\"name\":\"main\",\"updateGroups\":[[],[{\"id\":\"Ua\",\"platform\":\"IOS\",\"gitCommitHash\":\"aaaaaaa111\",\"branch\":{\"name\":\"main\"},\"createdAt\":\"2024-01-02T01:00:00+01:00\"}]]}]}}}}}"

ChannelResp_null ==
    "{\"data\":{\"app\":{\"byId\":{\"updateChannelByName\":null}}}}"

UpdatesResp_groups ==
    "{\"data\":{\"app\":{\"byId\":{\"updateBranchByName\":{\"updateGroups\":[[{\"id\":\"Ua\",\"platform\":\"IOS\",\"gitCommitHash\":\"aaaaaaa111\",\"branch\":{\"name\":\"main\"},\"createdAt\":\"2024-01-02T01:00:00+01:00\"}]]}}}}}"

UpdatesResp_null ==
    "{\"data\":{\"app\":{\"byId\":{\"updateBranchByName\":null}}}}"

HTMLBody ==
    "<html>Bad Gateway</html>"

WrongTypeBody ==
    "{\"data\":7}"

(* What http.DefaultClient.Do and the response body give the client: a     *)
(* transport failure, or a status and a body whose read or close may fail. *)
TransportFailure ==
    [doErr |-> TRUE, status |-> 0, body |-> "", readErr |-> FALSE, closeErr |-> FALSE]

StatusCodes ==
    {200, 404, 503}

HTTPResponses(bodies) ==
    {TransportFailure} \cup
    [doErr : {FALSE}, status : StatusCodes, body : bodies,
     readErr : BOOLEAN, closeErr : BOOLEAN]

(* io.ReadAll returns the bytes read before the error. *)
ReadAll(resp) ==
    IF resp.readErr THEN SubSeq(resp.body, 1, Len(resp.body) \div 2) ELSE resp.body

(* json.Unmarshal into submissionResponse; a null or missing object leaves *)
(* the zero value.                                                         *)
submission_Unmarshal(body) ==
    CASE body = SubmissionResp_found ->
            [err |-> FALSE, value |-> [Id |-> "S1", AppName |-> "avy", SubmittedBuild |-> Build_B2]]
      [] body = SubmissionResp_shortHash ->
            [err |-> FALSE, value |-> [Id |-> "S2", AppName |-> "avy", SubmittedBuild |-> Build_Bshort]]
      [] body \in {SubmissionResp_null, SubmissionResp_notFound, EmptyObjectBody} ->
            [err |-> FALSE, value |-> ZeroSubmission]
      [] OTHER -> [err |-> TRUE, value |-> ZeroSubmission]

(* json.Unmarshal into buildResponse *)
builds_Unmarshal(body) ==
    CASE body = BuildsResp_page -> [err |-> FALSE, value |-> <<Build_B3, Build_B2>>]
      [] body \in {BuildsResp_empty, EmptyObjectBody} -> [err |-> FALSE, value |-> <<>>]
      [] OTHER -> [err |-> TRUE, value |-> <<>>]

(* json.Unmarshal into updateChannelResponse *)
channel_Unmarshal(body) ==
    CASE body = ChannelResp_found ->
            [err |-> FALSE,
             value |-> [UpdateBranches |-> <<[Name |-> "main", UpdateGroups |-> <<<<>>, <<Update_Ua>>>>]>>]]
      [] body \in {ChannelResp_null, EmptyObjectBody} -> [err |-> FALSE, value |-> ZeroChannel]
      [] OTHER -> [err |-> TRUE, value |-> ZeroChannel]

(* json.Unmarshal into updateResponse *)
updates_Unmarshal(body) ==
    CASE body = UpdatesResp_groups -> [err |-> FALSE, value |-> <<<<Update_Ua>>>>]
      [] body \in {UpdatesResp_null, EmptyObjectBody} -> [err |-> FALSE, value |-> <<>>]
      [] OTHER -> [err |-> TRUE, value |-> <<>>]

(* How a client call ends: an error (with the status and body for a        *)
(* non-200 answer), a value, or a panic.                                   *)
ClientError(kind, status, body) ==
    [panic |-> FALSE, failed |-> TRUE, kind |-> kind, status |-> status, body |-> body, value |-> <<>>]

ClientValue(v) ==
    [panic |-> FALSE, failed |-> FALSE, kind |-> "", status |-> 0, body |-> "", value |-> v]

ClientPanic ==
    [panic |-> TRUE, failed |-> FALSE, kind |-> "", status |-> 0, body |-> "", value |-> <<>>]

(* Client.FetchBuilds from the Do call on. *)
Client_FetchBuilds(resp) ==
    IF resp.doErr THEN ClientError("transport", 0, "")
    ELSE LET body == ReadAll(resp) IN
         IF resp.status # 200 THEN ClientError("status", resp.status, body)
         ELSE LET p == builds_Unmarshal(body) IN
              IF p.err THEN ClientError("unmarshal", 0, "")
              ELSE ClientValue(p.value)

(* Client.FetchUpdateChannel from the Do call on. *)
Client_FetchUpdateChannel(resp) ==
    IF resp.doErr THEN ClientError("transport", 0, "")
    ELSE LET body == ReadAll(resp) IN
         IF resp.status # 200 THEN ClientError("status", resp.status, body)
         ELSE LET p == channel_Unmarshal(body) IN
              IF p.err THEN ClientError("unmarshal", 0, "")
              ELSE ClientValue(p.value)

(* Client.FetchUpdates from the Do call on. *)
Client_FetchUpdates(resp) ==
    IF resp.doErr THEN ClientError("transport", 0, "")
    ELSE LET body == ReadAll(resp) IN
         IF resp.status # 200 THEN ClientError("status", resp.status, body)
         ELSE LET p == updates_Unmarshal(body) IN
              IF p.err THEN ClientError("unmarshal", 0, "")
              ELSE ClientValue(p.value)

(* Client.FetchSubmission from the Do call on; the log line before the     *)
(* return formats the submitted build's version.                           *)
Client_FetchSubmission(resp) ==
    IF resp.doErr THEN ClientError("transport", 0, "")
    ELSE LET body == ReadAll(resp) IN
         IF resp.status # 200 THEN ClientError("status", resp.status, body)
         ELSE LET p == submission_Unmarshal(body) IN
              IF p.err THEN ClientError("unmarshal", 0, "")
              ELSE LET s == expo_FetchSubmission([err |-> FALSE, submission |-> p.value]) IN
                   IF s.panic THEN ClientPanic ELSE ClientValue(s.submission)

CommonBodies ==
    {EmptyObjectBody, HTMLBody, WrongTypeBody, ""}

ClientArgs(op) ==
    CASE op = "FetchBuilds" -> HTTPResponses({BuildsResp_page, BuildsResp_empty} \cup CommonBodies)
      [] op = "FetchUpdateChannel" -> HTTPResponses({ChannelResp_found, ChannelResp_null} \cup CommonBodies)
      [] op = "FetchUpdates" -> HTTPResponses({UpdatesResp_groups, UpdatesResp_null} \cup CommonBodies)
      [] op = "FetchSubmission" ->
            HTTPResponses({SubmissionResp_found, SubmissionResp_shortHash, SubmissionResp_null,
                           SubmissionResp_notFound} \cup CommonBodies)

ClientOps ==
    {"FetchBuilds", "FetchUpdateChannel", "FetchUpdates", "FetchSubmission"}

InitClient ==
    /\ fn \in ClientOps
    /\ args \in ClientArgs(fn)
    /\ out = Pending
    /\ secret = "s" /\ env = EmptyEnv
    /\ HandlerIdle

RunClient(op, result) ==
    /\ fn = op
    /\ ~out.done
    /\ out' = Done(result)
    /\ UNCHANGED <<fn, args>>
    /\ UNCHANGED hvars

RunFetchBuilds ==
    RunClient("FetchBuilds", Client_FetchBuilds(args))

RunFetchUpdateChannel ==
    RunClient("FetchUpdateChannel", Client_FetchUpdateChannel(args))

RunFetchUpdates ==
    RunClient("FetchUpdates", Client_FetchUpdates(args))

RunFetchSubmission ==
    RunClient("FetchSubmission", Client_FetchSubmission(args))

NextClient ==
    \/ RunFetchBuilds
    \/ RunFetchUpdateChannel
    \/ RunFetchUpdates
    \/ RunFetchSubmission

SpecClient ==
    InitClient /\ [][NextClient]_vars

ClientDone(op) ==
    fn = op /\ out.done

(* C11: FetchSubmission ends in an error, neither a value nor a panic,     *)
(* when the transport fails, the response does not parse, or the           *)
(* submission is not found; a 200 answer whose byId is null or whose       *)
(* submitted build lacks a 7-character commit hash ends in an error.       *)
C11_FetchSubmissionFails ==
    ClientDone("FetchSubmission") =>
        /\ (args.doErr \/ args.status # 200) => out.r.failed
        /\ (~args.doErr /\ args.status = 200 /\ submission_Unmarshal(ReadAll(args)).err) => out.r.failed
        /\ (/\ ~args.doErr /\ args.status = 200
            /\ ~submission_Unmarshal(ReadAll(args)).err
            /\ Len(submission_Unmarshal(ReadAll(args)).value.SubmittedBuild.GitCommitHash) < 7)
           => (out.r.failed /\ ~out.r.panic)

(* C12: nothing in enrichment is fatal: the enrichment of a validly        *)
(* signed, parseable webhook ends by posting or by logging and stopping,   *)
(* never in a panic, whatever the commit hashes in the payload and in the  *)
(* upstream records, and the acknowledged request completes with its 200.  *)
C12_EnrichmentNeverPanics ==
    /\ pc # "panicked"
    /\ (written = <<200>> /\ Finished) => returned

SkippedBefore(k) ==
    {j \in 1..(k - 1) : update_skipPreview(env, payload[j])}

(* C13: when a resolved previous build or update carries a malformed       *)
(* creation timestamp, message construction fails and no chat message,     *)
(* partial or otherwise, is posted for the event; when the failure is the  *)
(* error blocksFor returns, the handler logs it and returns.               *)
C13_FormattingFailurePostsNothing ==
    /\ (/\ route = "build" /\ Finished
        /\ \/ previousBuild.found /\ ParseRFC3339(previousBuild.build.CreatedAt).err
           \/ previousUpdate.found /\ ParseRFC3339(previousUpdate.update.CreatedAt).err)
       => posted = <<>>
    /\ (/\ route = "build" /\ Finished
        /\ previousBuild.found /\ ParseRFC3339(previousBuild.build.CreatedAt).err
        /\ Len(payload.GitCommitHash) >= 7)
       => (pc = "done" /\ returned)
    /\ (/\ route = "update" /\ Finished /\ written = <<200>> /\ idx <= Len(payload)
        /\ previousUpdate.found /\ ParseRFC3339(previousUpdate.update.CreatedAt).err)
       => Len(posted) = idx - 1 - Cardinality(SkippedBefore(idx))

(* A build whose previous build has a malformed createdAt was enriched:    *)
(* the handler returned without posting.                                   *)
C13_Witness ==
    /\ route = "build" /\ pc = "done" /\ written = <<200>>
    /\ previousBuild.found /\ ParseRFC3339(previousBuild.build.CreatedAt).err
    /\ Len(payload.GitCommitHash) >= 7
    /\ Len(calls) >= 1
    /\ posted = <<>>

(* C14: the previous update resolved for an update webhook is a prior      *)
(* event, never the newly published update itself: its id differs from the *)
(* id of the webhook's update, also when the new update is already among   *)
(* the branch's fetched update groups.                                     *)
C14_PreviousIsNotSelf ==
    (/\ route = "update"
     /\ pc \in {"update_blocksFor", "update_awaitPost"}
     /\ previousUpdate.found)
    => previousUpdate.update.Id # payload[idx].Id

CountOf(op) ==
    Cardinality(CallsOf({op}))

(* The updates of the payload whose enrichment has started. *)
EventsStarted ==
    {k \in 1..Len(payload) : k <= idx /\ ~update_skipPreview(env, payload[k])}

(* C15: no retries: within the enrichment of one event each upstream       *)
(* operation is issued at most once (build: FetchBuilds,                   *)
(* FetchUpdateChannel, FetchUpdates; update: FetchUpdates; submit:         *)
(* FetchSubmission) and at most one chat post is attempted, whatever the   *)
(* calls answer.                                                           *)
C15_NoRetries ==
    /\ route = "build" =>
          /\ CountOf("FetchBuilds") <= 1
          /\ CountOf("FetchUpdateChannel") <= 1
          /\ CountOf("FetchUpdates") <= 1
          /\ CountOf("PostMessage") <= 1
          /\ Len(calls) = CountOf("FetchBuilds") + CountOf("FetchUpdateChannel")
                          + CountOf("FetchUpdates") + CountOf("PostMessage")
    /\ route = "submit" =>
          /\ CountOf("FetchSubmission") <= 1
          /\ CountOf("PostMessage") <= 1
          /\ Len(calls) = CountOf("FetchSubmission") + CountOf("PostMessage")
    /\ (route = "update" /\ parsed) =>
          /\ CountOf("FetchUpdates") <= Cardinality(EventsStarted)
          /\ CountOf("PostMessage") <= Cardinality(EventsStarted)
          /\ Len(calls) = CountOf("FetchUpdates") + CountOf("PostMessage")
    /\ Len(posted) = CountOf("PostMessage")

(* A build enrichment in which every upstream call and the post failed     *)
(* has ended with each of them issued once.                                *)
C15_Witness ==
    /\ route = "build" /\ pc = "done"
    /\ Failed(answers.builds)
    /\ answers.channel.asked /\ answers.updates.asked /\ Failed(answers.updates)
    /\ answers.post.asked /\ answers.post.a
    /\ CountOf("FetchBuilds") = 1 /\ CountOf("FetchUpdateChannel") = 1
    /\ CountOf("FetchUpdates") = 1 /\ CountOf("PostMessage") = 1

(***************************************************************************)
(* SpecShutdown: main's signal handling around a request in flight         *)
(***************************************************************************)

InFlight ==
    pc \notin {"idle", "done", "panicked"}

(* os.Interrupt or SIGTERM cancels the NotifyContext. *)
Signal ==
    /\ ~server.exited /\ ~server.signalled
    /\ server' = [server EXCEPT !.signalled = TRUE]
    /\ UNCHANGED <<secret, env, route, req, pc, written, parsed, payload, idx, previousBuild,
                   previousUpdate, answers, calls, posted, returned, fn, args, out>>

(* The goroutine past ctx.Done() calls server.Shutdown, which closes the   *)
(* listener and then waits for the connections to become idle.             *)
Shutdown_call ==
    /\ ~server.exited /\ server.signalled /\ server.shutdown = "notCalled"
    /\ server' = [server EXCEPT !.shutdown = "draining"]
    /\ UNCHANGED <<secret, env, route, req, pc, written, parsed, payload, idx, previousBuild,
                   previousUpdate, answers, calls, posted, returned, fn, args, out>>

(* Shutdown returns once no request is being served. *)
Shutdown_return ==
    /\ ~server.exited /\ server.shutdown = "draining"
    /\ ~InFlight
    /\ server' = [server EXCEPT !.shutdown = "returned"]
    /\ UNCHANGED <<secret, env, route, req, pc, written, parsed, payload, idx, previousBuild,
                   previousUpdate, answers, calls, posted, returned, fn, args, out>>

(* ListenAndServe returns ErrServerClosed as soon as Shutdown has been     *)
(* called; main sees a non-nil error and log.Fatalf exits the process.     *)
ListenAndServe_return ==
    /\ ~server.exited /\ server.shutdown # "notCalled"
    /\ server' = [server EXCEPT !.exited = TRUE]
    /\ UNCHANGED <<secret, env, route, req, pc, written, parsed, payload, idx, previousBuild,
                   previousUpdate, answers, calls, posted, returned, fn, args, out>>

(* Requests are accepted while the listener is open, and goroutines run    *)
(* while the process lives.                                                *)
Serve ==
    /\ ~server.exited
    /\ \/ server.shutdown = "notCalled" /\ Receive
       \/ HandlerStep
       \/ AnswerStep

InitShutdown ==
    /\ secret = "s" /\ env = EmptyEnv
    /\ HandlerIdle
    /\ ResolverUnused

NextShutdown ==
    \/ Serve
    \/ Signal
    \/ Shutdown_call
    \/ Shutdown_return
    \/ ListenAndServe_return

SpecShutdown ==
    InitShutdown /\ [][NextShutdown]_vars

(* C16: on an interrupt or SIGTERM the process waits for in-flight request *)
(* handling to drain: it is never the case that the process has exited     *)
(* while a handler that was running when the signal arrived is still       *)
(* serving its request.                                                    *)
C16_DrainBeforeExit ==
    server.exited => ~InFlight

(***************************************************************************)
(* Display lookups and duration formatting                                 *)
(***************************************************************************)

PlatformAndroid == "android"
PlatformIOS == "ios"
StatusFinished == "finished"
StatusCancelled == "cancelled"
StatusErrored == "errored"

(* expo.PlatformEmoji *)
expo_PlatformEmoji(platform) ==
    CASE platform = PlatformAndroid -> ":android:"
      [] platform = PlatformIOS -> ":apple_logo:"
      [] OTHER -> ":grey_question:"

(* expo.PlatformDisplay *)
expo_PlatformDisplay(platform) ==
    CASE platform = PlatformAndroid -> "Android"
      [] platform = PlatformIOS -> "iOS"
      [] OTHER -> "Unknown platform "

expo_StatusEmoji_greyQuestion(status) ==
    CASE status = StatusFinished -> ":large_green_circle:"
      [] status = StatusCancelled -> ":large_yellow_circle:"
      [] status = StatusErrored -> ":red_circle:"
      [] OTHER -> ":grey_question:"

(* expo.StatusEmoji *)
expo_StatusEmoji(status) ==
    CASE status = StatusFinished -> ":large_green_circle:"
      [] status = StatusCancelled -> ":large_yellow_circle:"
      [] status = StatusErrored -> ":red_circle:"
      [] OTHER -> ":black_circle:"

(* expo.StatusDisplay *)
expo_StatusDisplay(status) ==
    CASE status = StatusFinished -> "succeeded"
      [] status = StatusCancelled -> "cancelled"
      [] status = StatusErrored -> "errored"
      [] OTHER -> "in an unknown state"

(* time.Duration is an int64 count of nanoseconds. A non-negative duration *)
(* is kept as its whole seconds s and the nanoseconds ns of the second it  *)
(* has begun, 0 <= ns < Nanos. Minute, Hour and Day are in seconds.        *)
Nanos == 1000000000
Minute == 60
Hour == 60 * Minute
Day == 24 * Hour

Duration(s, ns) ==
    [s |-> s, ns |-> ns]

RECURSIVE Log2(_)
(* The exponent of the binade of n: the largest e with 2^e <= n. *)
Log2(n) ==
    IF n <= 1 THEN 0 ELSE 1 + Log2(n \div 2)

(* A float64 value as far as int() and a division by a whole number need   *)
(* it: whole <= value < whole + 1, and exact iff value = whole.            *)
Float64(whole, exact) ==
    [whole |-> whole, exact |-> exact]

(* float64(whole) + float64(nsec)/unit, for a unit of 2^shift * odd        *)
(* nanoseconds and a remainder nsec that lies `off` nanoseconds from a     *)
(* whole number w of units (off = nsec above w = whole, or off = unit -    *)
(* nsec below w = whole + 1): whether the sum is rounded to w. A float64   *)
(* has 53 significant bits, so between whole and whole + 1 its values are  *)
(* 2^(e - 52) apart, e the exponent of whole, and the sum is rounded to w  *)
(* when it is less than half of that away from it: off / unit < 2^(e-53).  *)
(* Below 1 the quotient float64(nsec)/unit is the sum, and it is never     *)
(* rounded to a whole number.                                              *)
Float64_roundsToWhole(whole, off, shift, odd) ==
    LET k == 53 - shift - Log2(whole) IN
    /\ whole >= 1
    /\ k <= 30
    /\ off <= (odd - 1) \div (2 ^ k)

(* Duration.Seconds, Minutes, Hours:                                       *)
(* float64(d / unit) + float64(d % unit) / (unit in nanoseconds).          *)
(* short and past are the nanoseconds to the next and from the last whole  *)
(* unit, kept at one second when they are a second or more, which is too   *)
(* far for the sum to be rounded to the whole number.                      *)
Duration_float(d, unit, shift, odd) ==
    LET whole == d.s \div unit
        short == IF d.s % unit = unit - 1 THEN Nanos - d.ns ELSE Nanos
        past == IF d.s % unit = 0 THEN d.ns ELSE Nanos
    IN IF d.s % unit = 0 /\ d.ns = 0 THEN Float64(whole, TRUE)
       ELSE IF Float64_roundsToWhole(whole, short, shift, odd) THEN Float64(whole + 1, TRUE)
       ELSE IF Float64_roundsToWhole(whole, past, shift, odd) THEN Float64(whole, TRUE)
       ELSE Float64(whole, FALSE)

(* 1e9 = 2^9 * 1953125 *)
Duration_Seconds(d) ==
    Duration_float(d, 1, 9, 1953125)

(* 60 * 1e9 = 2^11 * 29296875 *)
Duration_Minutes(d) ==
    Duration_float(d, Minute, 11, 29296875)

(* 60 * 60 * 1e9 = 2^13 * 439453125 *)
Duration_Hours(d) ==
    Duration_float(d, Hour, 13, 439453125)

(* x / by for by = 24, 30*24, 365*24: the quotient is a whole number only  *)
(* for a whole multiple of by; any other value is at least a float64 step  *)
(* from one, and its quotient is not rounded to a whole number.            *)
Float64_Quo(x, by) ==
    Float64(x.whole \div by, x.exact /\ x.whole % by = 0)

(* int(x): truncation. *)
Float64_int(x) ==
    x.whole

(* update.formatDuration *)
update_formatDuration(d) ==
    IF d.s < Minute THEN ToString(Float64_int(Duration_Seconds(d))) \o " seconds"
    ELSE IF d.s < Hour THEN ToString(Float64_int(Duration_Minutes(d))) \o " minutes"
    ELSE IF d.s < 24 * Hour THEN ToString(Float64_int(Duration_Hours(d))) \o " hours"
    ELSE IF d.s < 30 * 24 * Hour
         THEN ToString(Float64_int(Float64_Quo(Duration_Hours(d), 24))) \o " days"
    ELSE IF d.s < 365 * 24 * Hour
         THEN ToString(Float64_int(Float64_Quo(Duration_Hours(d), 30 * 24))) \o " months"
    ELSE ToString(Float64_int(Float64_Quo(Duration_Hours(d), 365 * 24))) \o " years"

(* build.formatDuration *)
build_formatDuration(d) ==
    IF d.s < Minute THEN ToString(Float64_int(Duration_Seconds(d))) \o " seconds"
    ELSE IF d.s < Hour THEN ToString(Float64_int(Duration_Minutes(d))) \o " minutes"
    ELSE IF d.s < 24 * Hour THEN ToString(Float64_int(Duration_Hours(d))) \o " hours"
    ELSE IF d.s < 30 * 24 * Hour
         THEN ToString(Float64_int(Float64_Quo(Duration_Hours(d), 24))) \o " days"
    ELSE IF d.s < 365 * 24 * Hour
         THEN ToString(Float64_int(Float64_Quo(Duration_Hours(d), 30 * 24))) \o " months"
    ELSE ToString(Float64_int(Float64_Quo(Duration_Hours(d), 365 * 24))) \o " years"

(***************************************************************************)
(* SpecFormat: the lookups and formatDuration on bounded inputs            *)
(***************************************************************************)

MaxMultiple == 12

PlatformValues ==
    {"android", "ios", "IOS", "Android", "iOS", "web", ""}

StatusValues ==
    {"finished", "cancelled", "errored", "FINISHED", "canceled", "in-progress", ""}

Units ==
    {1, Minute, Hour, Day, 30 * Day, 365 * Day}

(* Nanoseconds by which a duration falls short of, or exceeds, a whole     *)
(* multiple.                                                               *)
ShortBy ==
    {1, 2, 4, 7}

(* Non-negative durations at and around whole multiples of each unit: one  *)
(* second before and after, a few nanoseconds before and after; and the    *)
(* documented examples.                                                    *)
Durations ==
    {Duration(sec, 0) :
        sec \in {t \in {unit * k + e : unit \in Units, k \in 0..MaxMultiple, e \in {-1, 0, 1}} :
                   t >= 0}
                 \cup {45, 90, 25 * Hour, 400 * Day}}
    \cup {Duration(unit * k - 1, Nanos - m) : unit \in Units, k \in 1..MaxMultiple, m \in ShortBy}
    \cup {Duration(unit * k, m) : unit \in Units, k \in 0..MaxMultiple, m \in ShortBy}

InitFormat ==
    /\ \/ /\ fn = "display"
          /\ args \in [platform : PlatformValues, status : StatusValues]
          /\ out = [platformEmoji |-> Pending, platformDisplay |-> Pending,
                    statusEmoji |-> Pending, statusDisplay |-> Pending]
       \/ /\ fn = "formatDuration"
          /\ args \in Durations
          /\ out = [b |-> Pending, u |-> Pending]
    /\ secret = "s" /\ env = EmptyEnv
    /\ HandlerIdle

RunPlatformEmoji ==
    /\ fn = "display" /\ ~out.platformEmoji.done
    /\ out' = [out EXCEPT !.platformEmoji = Done(expo_PlatformEmoji(args.platform))]
    /\ UNCHANGED <<fn, args>>
    /\ UNCHANGED hvars

RunPlatformDisplay ==
    /\ fn = "display" /\ ~out.platformDisplay.done
    /\ out' = [out EXCEPT !.platformDisplay = Done(expo_PlatformDisplay(args.platform))]
    /\ UNCHANGED <<fn, args>>
    /\ UNCHANGED hvars

RunStatusEmoji ==
    /\ fn = "display" /\ ~out.statusEmoji.done
    /\ out' = [out EXCEPT !.statusEmoji = Done(expo_StatusEmoji(args.status))]
    /\ UNCHANGED <<fn, args>>
    /\ UNCHANGED hvars

RunStatusDisplay ==
    /\ fn = "display" /\ ~out.statusDisplay.done
    /\ out' = [out EXCEPT !.statusDisplay = Done(expo_StatusDisplay(args.status))]
    /\ UNCHANGED <<fn, args>>
    /\ UNCHANGED hvars

RunBuildFormatDuration ==
    /\ fn = "formatDuration" /\ ~out.b.done
    /\ out' = [out EXCEPT !.b = Done(build_formatDuration(args))]
    /\ UNCHANGED <<fn, args>>
    /\ UNCHANGED hvars

RunUpdateFormatDuration ==
    /\ fn = "formatDuration" /\ ~out.u.done
    /\ out' = [out EXCEPT !.u = Done(update_formatDuration(args))]
    /\ UNCHANGED <<fn, args>>
    /\ UNCHANGED hvars

NextFormat ==
    \/ RunPlatformEmoji
    \/ RunPlatformDisplay
    \/ RunStatusEmoji
    \/ RunStatusDisplay
    \/ RunBuildFormatDuration
    \/ RunUpdateFormatDuration

SpecFormat ==
    InitFormat /\ [][NextFormat]_vars

DisplayDone ==
    /\ fn = "display"
    /\ out.platformEmoji.done /\ out.platformDisplay.done
    /\ out.statusEmoji.done /\ out.statusDisplay.done

SupportedPlatforms ==
    {"android", "ios"}

SupportedStatuses ==
    {"finished", "cancelled", "errored"}

(* The fixed strings of the supported values and the fallbacks of          *)
(* PlatformEmoji, PlatformDisplay and StatusDisplay.                       *)
DisplayExceptStatusEmoji ==
    /\ args.platform = "android" =>
          (out.platformEmoji.r = ":android:" /\ out.platformDisplay.r = "Android")
    /\ args.platform = "ios" =>
          (out.platformEmoji.r = ":apple_logo:" /\ out.platformDisplay.r = "iOS")
    /\ args.platform \notin SupportedPlatforms =>
          (out.platformEmoji.r = ":grey_question:" /\ out.platformDisplay.r = "Unknown platform ")
    /\ args.status = "finished" =>
          (out.statusEmoji.r = ":large_green_circle:" /\ out.statusDisplay.r = "succeeded")
    /\ args.status = "cancelled" =>
          (out.statusEmoji.r = ":large_yellow_circle:" /\ out.statusDisplay.r = "cancelled")
    /\ args.status = "errored" =>
          (out.statusEmoji.r = ":red_circle:" /\ out.statusDisplay.r = "errored")
    /\ args.status \notin SupportedStatuses => out.statusDisplay.r = "in an unknown state"

(* C17 as stated: the four lookups are total, return the fixed string of   *)
(* each supported value, and for every other value return the fallback:    *)
(* the unknown-platform text, the grey-question emoji for both emoji       *)
(* lookups, and "in an unknown state".                                     *)
C17_GreyQuestionForBothEmoji ==
    DisplayDone =>
        /\ DisplayExceptStatusEmoji
        /\ args.status \notin SupportedStatuses => out.statusEmoji.r = ":grey_question:"

(* C17, amended: the four lookups are total, return the fixed string of    *)
(* each supported value, and for every other value return the fallback:    *)
(* "Unknown platform " for PlatformDisplay, the grey-question emoji for    *)
(* PlatformEmoji, the black-circle emoji for StatusEmoji and "in an        *)
(* unknown state" for StatusDisplay.                                       *)
C17_LookupsTotal ==
    DisplayDone =>
        /\ DisplayExceptStatusEmoji
        /\ args.status \notin SupportedStatuses => out.statusEmoji.r = ":black_circle:"

(* All four lookups were applied to an unsupported platform and an         *)
(* unsupported status.                                                     *)
C17_Witness ==
    /\ DisplayDone
    /\ args.platform = "web" /\ args.status = "in-progress"
    /\ out.statusEmoji.r = ":black_circle:"
    /\ out.platformEmoji.r = ":grey_question:"

DurationDone ==
    fn = "formatDuration" /\ out.b.done /\ out.u.done

(* The unit the thresholds select, as a name and a length in seconds. *)
UnitOf(d) ==
    IF d.s < 60 THEN [name |-> "seconds", len |-> 1]
    ELSE IF d.s < 3600 THEN [name |-> "minutes", len |-> 60]
    ELSE IF d.s < 86400 THEN [name |-> "hours", len |-> 3600]
    ELSE IF d.s < 30 * 86400 THEN [name |-> "days", len |-> 86400]
    ELSE IF d.s < 365 * 86400 THEN [name |-> "months", len |-> 30 * 86400]
    ELSE [name |-> "years", len |-> 365 * 86400]

(* C18: formatDuration maps a non-negative duration to the coarsest unit   *)
(* by the thresholds 1 minute, 1 hour, 24 hours, 30 days and 365 days, and *)
(* prints the truncated quotient of the duration by that unit (months of   *)
(* 30 days, years of 365 days); 45 s is "45 seconds", 90 s "1 minutes",    *)
(* 25 h "1 days", 400 days "1 years"; the build and the update copy agree. *)
(* The unit is a whole number of seconds, so the truncated quotient of the *)
(* duration is that of its whole seconds.                                  *)
C18_TruncatedCoarsestUnit ==
    DurationDone =>
        /\ out.b.r = ToString(args.s \div UnitOf(args).len) \o " " \o UnitOf(args).name
        /\ out.u.r = out.b.r
        /\ args = Duration(45, 0) => out.b.r = "45 seconds"
        /\ args = Duration(90, 0) => out.b.r = "1 minutes"
        /\ args = Duration(25 * 3600, 0) => out.b.r = "1 days"
        /\ args = Duration(400 * 86400, 0) => out.b.r = "1 years"

BlockIndex(blocks, kind) ==
    CHOOSE k \in 1..Len(blocks) : blocks[k] = kind

Resolved(previous) ==
    IF previous.found THEN 1 ELSE 0

(* C19: the build message is an ordered block sequence: the header first;  *)
(* a previous-build block iff a previous build was resolved and a          *)
(* previous-update block iff a previous update was resolved, the build     *)
(* block before the update block; the details block last, carrying the     *)
(* error text iff the event's error code or message is non-empty; its      *)
(* length is 2 plus the number of resolved previous events.                *)
C19_BuildMessageLayout ==
    (route = "build" /\ posted # <<>>) =>
        LET blocks == posted[1]
            n == Len(blocks)
        IN /\ n = 2 + Resolved(previousBuild) + Resolved(previousUpdate)
           /\ blocks[1] = "header"
           /\ blocks[n] \in {"details", "detailsWithError"}
           /\ blocks[n] = "detailsWithError"
                 <=> (payload.ErrorCode # "" \/ payload.ErrorMessage # "")
           /\ HasBlock(blocks, "previousBuild") <=> previousBuild.found
           /\ HasBlock(blocks, "previousUpdate") <=> previousUpdate.found
           /\ \A k \in 2..(n - 1) : blocks[k] \in {"previousBuild", "previousUpdate"}
           /\ (previousBuild.found /\ previousUpdate.found)
                 => BlockIndex(blocks, "previousBuild") < BlockIndex(blocks, "previousUpdate")

(* A build message with both comparison blocks was posted. *)
C19_Witness ==
    /\ route = "build" /\ posted # <<>>
    /\ previousBuild.found /\ previousUpdate.found
    /\ posted[1] = <<"header", "previousBuild", "previousUpdate", "details">>

(* Whether the body the operation read fails to parse as its response. *)
BodyMalformed(op, body) ==
    CASE op = "FetchBuilds" -> builds_Unmarshal(body).err
      [] op = "FetchUpdateChannel" -> channel_Unmarshal(body).err
      [] op = "FetchUpdates" -> updates_Unmarshal(body).err
      [] op = "FetchSubmission" -> submission_Unmarshal(body).err

(* C20: each of the four upstream operations returns an error carrying the *)
(* status code and the body when the HTTP status is not a success status,  *)
(* returns a parse error when the response body is malformed, and does not *)
(* crash when reading or closing the response body fails: the call still   *)
(* ends in a value or an error.                                            *)
C20_ClientFailuresAreErrors ==
    (fn \in ClientOps /\ out.done) =>
        /\ (~args.doErr /\ args.status # 200)
              => /\ out.r.failed /\ out.r.kind = "status"
                 /\ out.r.status = args.status
                 /\ out.r.body = ReadAll(args)
        /\ (~args.doErr /\ args.status = 200 /\ BodyMalformed(fn, ReadAll(args)))
              => (out.r.failed /\ out.r.kind = "unmarshal")
        /\ (~args.doErr /\ (args.readErr \/ args.closeErr)) => ~out.r.panic

(* The updates of a channel by branch, group and member index. *)
ChannelPositions(channel) ==
    UNION {UNION {{<<b, g, u>> : u \in 1..Len(channel.UpdateBranches[b].UpdateGroups[g])}
                  : g \in 1..Len(channel.UpdateBranches[b].UpdateGroups)}
           : b \in 1..Len(channel.UpdateBranches)}

ChannelAt(channel, p) ==
    channel.UpdateBranches[p[1]].UpdateGroups[p[2]][p[3]]

Before3(p, q) ==
    \/ p[1] < q[1]
    \/ p[1] = q[1] /\ p[2] < q[2]
    \/ p[1] = q[1] /\ p[2] = q[2] /\ p[3] < q[3]

MatchingInChannel(platform, channel) ==
    {p \in ChannelPositions(channel) : Matches(platform, ChannelAt(channel, p))}

FirstCallOf(op) ==
    CHOOSE k \in CallsOf({op}) : \A j \in CallsOf({op}) : k <= j

(* C21: the previous update of a build is resolved in two steps: the       *)
(* branch is the branch name of the first update, over the channel's       *)
(* branches, then groups, then members in returned order, whose platform   *)
(* matches the build's; FetchUpdates is issued only after that succeeded   *)
(* and with exactly that name; when no update matches the lookup ends      *)
(* without a previous update and without FetchUpdates.                     *)
C21_BranchThenUpdates ==
    /\ (route = "build" /\ ~answers.channel.asked) => CallsOf({"FetchUpdates"}) = {}
    /\ (route = "build" /\ answers.channel.asked) =>
          LET channel == answers.channel.a.channel
              M == MatchingInChannel(payload.Platform, channel)
          IN /\ (answers.channel.a.err \/ M = {})
                   => /\ CallsOf({"FetchUpdates"}) = {}
                      /\ ~previousUpdate.found
                      /\ pc # "build_awaitUpdates"
             /\ (~answers.channel.a.err /\ M # {})
                   => /\ Cardinality(CallsOf({"FetchUpdates"})) = 1
                      /\ FirstCallOf("FetchUpdateChannel") < FirstCallOf("FetchUpdates")
                      /\ \E p \in M :
                            /\ \A q \in M : q = p \/ Before3(p, q)
                            /\ calls[FirstCallOf("FetchUpdates")].arg
                                 = ChannelAt(channel, p).BranchName

(* The channel holds matching updates on two branches, the first of them   *)
(* second in the second group of the first branch and the last on the      *)
(* other branch: FetchUpdates was issued for the branch of the first.      *)
C21_Witness ==
    /\ route = "build" /\ answers.channel.asked /\ ~answers.channel.a.err
    /\ CallsOf({"FetchUpdates"}) # {}
    /\ LET channel == answers.channel.a.channel
           M == MatchingInChannel(payload.Platform, channel)
           first == <<1, 2, 2>>
           last == CHOOSE q \in M : \A r \in M : r = q \/ Before3(r, q)
       IN /\ first \in M
          /\ \A q \in M : (q = first \/ Before3(first, q))
          /\ ChannelAt(channel, last).BranchName # ChannelAt(channel, first).BranchName
          /\ calls[FirstCallOf("FetchUpdates")].arg = ChannelAt(channel, first).BranchName

(* The updates before index k whose branch name begins with the preview   *)
(* prefix.                                                                 *)
PreviewsBefore(k) ==
    {j \in 1..(k - 1) : HasPrefix(payload[j].Branch, "xxx")}

(* The update loop is between two updates, having dealt with idx - 1. *)
BetweenUpdates ==
    route = "update" /\ pc = "update_handlePayload" /\ written = <<200>>

(* C22: with the preview toggle set as the README documents                *)
(* (ALLOW_PREVIEWS), no update of a payload is skipped as a preview;       *)
(* without it exactly the updates whose branch name begins with the        *)
(* preview prefix are skipped, and a skipped update causes no upstream     *)
(* fetch and no chat message.                                              *)
C22_PreviewToggle ==
    /\ (BetweenUpdates /\ "ALLOW_PREVIEWS" \in DOMAIN env)
          => Len(posted) = idx - 1
    /\ (BetweenUpdates /\ "ALLOW_PREVIEWS" \notin DOMAIN env)
          => /\ Len(posted) = idx - 1 - Cardinality(PreviewsBefore(idx))
             /\ CountOf("FetchUpdates") <= idx - 1 - Cardinality(PreviewsBefore(idx))

NotSkipped ==
    {k \in 1..Len(payload) : ~update_skipPreview(env, payload[k])}

(* C23: the updates of one payload are enriched independently and in       *)
(* payload order: every update that is not skipped as a preview leads to   *)
(* exactly one chat post attempt, also when enriching or formatting an     *)
(* update before it failed.                                                *)
C23_EveryUpdatePosts ==
    (route = "update" /\ Finished /\ written = <<200>>)
    => /\ Len(posted) = Cardinality(NotSkipped)
       /\ CountOf("PostMessage") = Cardinality(NotSkipped)

(* C24: the platform lookups agree with case-insensitive equality: a      *)
(* platform value that Platform.Equal reports equal to a supported         *)
(* platform gets that platform's emoji and display name, so it is never    *)
(* shown as an unknown platform.                                           *)
C24_DisplayFollowsEqual ==
    (fn = "display" /\ out.platformEmoji.done /\ out.platformDisplay.done) =>
        /\ Platform_Equal(args.platform, "ios")
              => (out.platformEmoji.r = ":apple_logo:" /\ out.platformDisplay.r = "iOS")
        /\ Platform_Equal(args.platform, "android")
              => (out.platformEmoji.r = ":android:" /\ out.platformDisplay.r = "Android")

(***************************************************************************)
(* The bundled test sender                                                 *)
(***************************************************************************)

(* test main: hex.EncodeToString of the HMAC-SHA1 of the payload file      *)
(* under the --hmac-secret option.                                         *)
test_encoded(key, body) ==
    hmacSHA1Hex(key, body)

test_main_request_noPrefix(key, body) ==
    [method |-> "POST", readable |-> TRUE, body |-> body,
     signature |-> test_encoded(key, body),
     expoSignature |-> test_encoded(key, body)]

(* test main: the POST it sends, with both signature headers set. *)
test_main_request(key, body) ==
    [method |-> "POST", readable |-> TRUE, body |-> body,
     signature |-> "sha1=" \o test_encoded(key, body),
     expoSignature |-> "sha1=" \o test_encoded(key, body)]

(* C25: the test sender and the server agree on the signature: a POST the  *)
(* test program sends with the server's secret is never answered 401 on    *)
(* any of the three routes, and one sent with a different secret is always *)
(* answered 401. The server's secret is the one of the configuration       *)
(* Handle is called with.                                                  *)
C25_SenderAgreesWithServer ==
    \A k \in Secrets :
        (Handled /\ req = test_main_request(k, req.body)) =>
            /\ k = secret => (written # <<401>> /\ Len(written) = 1)
            /\ k # secret => written = <<401>>

(* The update handler acknowledged a payload sent by the test program      *)
(* with the server's secret.                                               *)
C25_Witness ==
    /\ Handled
    /\ route = "update"
    /\ req = test_main_request(secret, UpdateBody1)
    /\ written = <<200>>

====
